---- MODULE Spec2Model ----
(***************************************************************************)
(* A model of js-deque (src/src/Deque.ts): DequeImpl, a doubly linked list *)
(* of DequeNodeImpl objects with a head reference, a tail reference and a  *)
(* maintained element count.                                               *)
(*                                                                         *)
(* Objects live in an arena: a node is an index into heap, a link is a     *)
(* node index or NULL.  A node that no deque links is garbage; allocating  *)
(* a node takes the smallest garbage slot and overwrites it.               *)
(*                                                                         *)
(* Every method is an operator from a world (heap, deques, live deques) to *)
(* a record [w, ret] of the world after the call and the value returned,   *)
(* written statement by statement after the TypeScript.  Every action      *)
(* applies one method and records the call in op, its result in ret and    *)
(* the world before the call in pre.  A specification that follows a      *)
(* scripted run of calls (a push and the pop after it, a queue filled and  *)
(* drained) logs the calls of the run in trace.                            *)
(***************************************************************************)
EXTENDS Integers, Sequences, FiniteSets, TLC

\* ------------------------------------------------------------------ bounds
\* the largest size a deque is grown to, and the longest initializer sequence
MaxSize == 3
\* an index far outside every deque
FarIndex == 1000
\* the longest deque a single call is tried on
MaxLong == 5
\* the most elements two deques held at once have together
MaxPair == 3

\* ------------------------------------------------------------------ values
\* the null reference of a prev / next / head / tail link
NULL == 0
\* JavaScript's undefined, the absent indicator
Undefined == "undefined"
\* JavaScript's null, which is a storable value
Null == "null"
\* the values a caller stores: two numbers and null
Values == {"1", "2", Null}

\* the arena holds a full deque and a full copy of it, and the longest deque
\* and one node more
MaxNodes == IF 2 * MaxSize > MaxLong THEN 2 * MaxSize ELSE MaxLong + 1
Nodes == 1..MaxNodes
DequeIds == {1, 2}

VARIABLES heap, dq, live, op, ret, pre, trace
vars == <<heap, dq, live, op, ret, pre, trace>>

\* the world the methods work on
World == [heap |-> heap, dq |-> dq, live |-> live]

\* ------------------------------------------------------------ return values
RetNum(k) == [t |-> "number", n |-> k, v |-> Undefined]
RetVal(x) == [t |-> "value", n |-> 0, v |-> x]
RetVoid == [t |-> "void", n |-> 0, v |-> Undefined]
RetDeque(d) == [t |-> "deque", n |-> d, v |-> Undefined]
RetFault == [t |-> "TypeError", n |-> 0, v |-> Undefined]
RetBool(b) == [t |-> "boolean", n |-> 0, v |-> IF b THEN "true" ELSE "false"]
RetArray(arr) == [t |-> "array", n |-> Len(arr), v |-> arr]
\* a string result: v is the text, one character per element
RetString(str) == [t |-> "string", n |-> Len(str), v |-> str]

\* ------------------------------------------------------------------- nodes
\* new DequeNodeImpl(data): prev and next start null
DequeNodeImpl(data) == [prev |-> NULL, next |-> NULL, data |-> data]

\* DequeNodeImpl.clear() on node n
nodeClear(h, n) == [h EXCEPT ![n] = [prev |-> NULL, next |-> NULL, data |-> Undefined]]

\* a DequeImpl right after its field initializers
EmptyDeque == [head |-> NULL, tail |-> NULL, size |-> 0]

\* the nodes met from n by following next, at most fuel of them
RECURSIVE NextChain(_, _, _)
NextChain(h, n, fuel) ==
  IF n = NULL \/ fuel = 0 THEN <<>>
  ELSE <<n>> \o NextChain(h, h[n].next, fuel - 1)

\* the nodes met from n by following prev, at most fuel of them
RECURSIVE PrevChain(_, _, _)
PrevChain(h, n, fuel) ==
  IF n = NULL \/ fuel = 0 THEN <<>>
  ELSE <<n>> \o PrevChain(h, h[n].prev, fuel - 1)

SeqRange(s) == {s[i] : i \in 1..Len(s)}

\* the nodes deque d links, head first
Linked(w, d) == NextChain(w.heap, w.dq[d].head, MaxNodes + 1)

\* the nodes some live deque links
AllLinked(w) == UNION {SeqRange(Linked(w, d)) : d \in w.live}

\* the slot a new node gets: the smallest one no live deque links
Alloc(w) == CHOOSE n \in Nodes \ AllLinked(w) : \A m \in Nodes \ AllLinked(w) : n <= m

\* the number of slots still free
FreeSlots(w) == Cardinality(Nodes \ AllLinked(w))

\* ------------------------------------------------------- collaborators
\* A stored value is a primitive or a reference to a structured value (an
\* array or an object).  Two structured values are told apart by their
\* contents, a and b, and the references to equal ones by the marks the
\* clones carry.
Refs == {"&a", "&b", "&a'", "&b'", "&a''", "&b''"}

\* the contents a reference points at; a primitive is its own contents
ContentsOf(v) ==
  CASE v \in {"&a", "&a'", "&a''"} -> "&a"
    [] v \in {"&b", "&b'", "&b''"} -> "&b"
    [] OTHER -> v

\* a new structured value with the contents of the one at r
cloneDeepObject(r) ==
  CASE r = "&a" -> "&a'"
    [] r = "&b" -> "&b'"
    [] r = "&a'" -> "&a''"
    [] r = "&b'" -> "&b''"

\* lodash cloneDeep: a primitive is returned as it is, a structured value
\* is duplicated
cloneDeep(v) == IF v \in Refs THEN cloneDeepObject(v) ELSE v

\* lodash isEqual: deep equality, which is equality of contents
isEqual(a, b) == ContentsOf(a) = ContentsOf(b)

\* ------------------------------------------------------------ ends access
size(w, d) == w.dq[d].size

\* a ?? b
Coalesce(a, b) == IF a = Null \/ a = Undefined THEN b ELSE a

\* front(): this.head?.data ?? undefined
front(w, d) ==
  IF w.dq[d].head = NULL THEN Undefined
  ELSE Coalesce(w.heap[w.dq[d].head].data, Undefined)

\* back(): this.tail?.data ?? undefined
back(w, d) ==
  IF w.dq[d].tail = NULL THEN Undefined
  ELSE Coalesce(w.heap[w.dq[d].tail].data, Undefined)

\* ------------------------------------------------------ insertion at ends
pushFront(w, d, data) ==
  LET newNode == Alloc(w)
      head == w.dq[d].head
      h1 == [w.heap EXCEPT ![newNode] = [DequeNodeImpl(data) EXCEPT !.next = head]]
      h2 == IF head # NULL THEN [h1 EXCEPT ![head].prev = newNode] ELSE h1
      q1 == [w.dq[d] EXCEPT !.head = newNode]
      q2 == IF q1.tail = NULL THEN [q1 EXCEPT !.tail = newNode] ELSE q1
      q3 == [q2 EXCEPT !.size = @ + 1]
  IN [w |-> [w EXCEPT !.heap = h2, !.dq[d] = q3], ret |-> RetNum(q3.size)]

\* pushBack() that leaves this.head alone on an empty deque
pushBack_NoHead(w, d, data) ==
  LET newNode == Alloc(w)
      tail == w.dq[d].tail
      h1 == [w.heap EXCEPT ![newNode] = [DequeNodeImpl(data) EXCEPT !.prev = tail]]
      h2 == IF tail # NULL THEN [h1 EXCEPT ![tail].next = newNode] ELSE h1
      q1 == [w.dq[d] EXCEPT !.tail = newNode]
      q3 == [q1 EXCEPT !.size = @ + 1]
  IN [w |-> [w EXCEPT !.heap = h2, !.dq[d] = q3], ret |-> RetNum(q3.size)]

pushBack(w, d, data) ==
  LET newNode == Alloc(w)
      tail == w.dq[d].tail
      h1 == [w.heap EXCEPT ![newNode] = [DequeNodeImpl(data) EXCEPT !.prev = tail]]
      h2 == IF tail # NULL THEN [h1 EXCEPT ![tail].next = newNode] ELSE h1
      q1 == [w.dq[d] EXCEPT !.tail = newNode]
      q2 == IF q1.head = NULL THEN [q1 EXCEPT !.head = newNode] ELSE q1
      q3 == [q2 EXCEPT !.size = @ + 1]
  IN [w |-> [w EXCEPT !.heap = h2, !.dq[d] = q3], ret |-> RetNum(q3.size)]

\* -------------------------------------------------------- removal at ends
\* popFront() that decrements this._size before it looks at the head
popFront_DecrementFirst(w, d) ==
  LET head == w.dq[d].head
      w0 == [w EXCEPT !.dq[d].size = @ - 1]
  IN
  IF head = NULL THEN [w |-> w0, ret |-> RetVal(Undefined)]
  ELSE
    LET nxt == w.heap[head].next
        h1 == IF nxt # NULL THEN [w.heap EXCEPT ![nxt].prev = NULL] ELSE w.heap
        q1 == IF nxt # NULL THEN [w0.dq[d] EXCEPT !.head = nxt]
              ELSE [w0.dq[d] EXCEPT !.head = NULL, !.tail = NULL]
        data == h1[head].data
        h2 == nodeClear(h1, head)
    IN [w |-> [w EXCEPT !.heap = h2, !.dq[d] = q1], ret |-> RetVal(data)]

\* popFront() that returns the data of the node after the head
popFront_NextData(w, d) ==
  LET head == w.dq[d].head IN
  IF head = NULL THEN [w |-> w, ret |-> RetVal(Undefined)]
  ELSE
    LET nxt == w.heap[head].next
        h1 == IF nxt # NULL THEN [w.heap EXCEPT ![nxt].prev = NULL] ELSE w.heap
        q1 == IF nxt # NULL THEN [w.dq[d] EXCEPT !.head = nxt]
              ELSE [w.dq[d] EXCEPT !.head = NULL, !.tail = NULL]
        data == IF nxt # NULL THEN h1[nxt].data ELSE h1[head].data
        h2 == nodeClear(h1, head)
        q2 == [q1 EXCEPT !.size = @ - 1]
    IN [w |-> [w EXCEPT !.heap = h2, !.dq[d] = q2], ret |-> RetVal(data)]

popFront(w, d) ==
  LET head == w.dq[d].head IN
  IF head = NULL THEN [w |-> w, ret |-> RetVal(Undefined)]
  ELSE
    LET nxt == w.heap[head].next
        h1 == IF nxt # NULL THEN [w.heap EXCEPT ![nxt].prev = NULL] ELSE w.heap
        q1 == IF nxt # NULL THEN [w.dq[d] EXCEPT !.head = nxt]
              ELSE [w.dq[d] EXCEPT !.head = NULL, !.tail = NULL]
        data == h1[head].data
        h2 == nodeClear(h1, head)
        q2 == [q1 EXCEPT !.size = @ - 1]
    IN [w |-> [w EXCEPT !.heap = h2, !.dq[d] = q2], ret |-> RetVal(data)]

\* popBack() without tail.prev.next = null
popBack_KeepNext(w, d) ==
  LET tail == w.dq[d].tail IN
  IF tail = NULL THEN [w |-> w, ret |-> RetVal(Undefined)]
  ELSE
    LET prv == w.heap[tail].prev
        q1 == IF prv # NULL THEN [w.dq[d] EXCEPT !.tail = prv]
              ELSE [w.dq[d] EXCEPT !.head = NULL, !.tail = NULL]
        data == w.heap[tail].data
        h2 == nodeClear(w.heap, tail)
        q2 == [q1 EXCEPT !.size = @ - 1]
    IN [w |-> [w EXCEPT !.heap = h2, !.dq[d] = q2], ret |-> RetVal(data)]

\* popBack() that leaves this.head alone when the last node goes
popBack_KeepHead(w, d) ==
  LET tail == w.dq[d].tail IN
  IF tail = NULL THEN [w |-> w, ret |-> RetVal(Undefined)]
  ELSE
    LET prv == w.heap[tail].prev
        h1 == IF prv # NULL THEN [w.heap EXCEPT ![prv].next = NULL] ELSE w.heap
        q1 == IF prv # NULL THEN [w.dq[d] EXCEPT !.tail = prv]
              ELSE [w.dq[d] EXCEPT !.tail = NULL]
        data == h1[tail].data
        h2 == nodeClear(h1, tail)
        q2 == [q1 EXCEPT !.size = @ - 1]
    IN [w |-> [w EXCEPT !.heap = h2, !.dq[d] = q2], ret |-> RetVal(data)]

popBack(w, d) ==
  LET tail == w.dq[d].tail IN
  IF tail = NULL THEN [w |-> w, ret |-> RetVal(Undefined)]
  ELSE
    LET prv == w.heap[tail].prev
        h1 == IF prv # NULL THEN [w.heap EXCEPT ![prv].next = NULL] ELSE w.heap
        q1 == IF prv # NULL THEN [w.dq[d] EXCEPT !.tail = prv]
              ELSE [w.dq[d] EXCEPT !.head = NULL, !.tail = NULL]
        data == h1[tail].data
        h2 == nodeClear(h1, tail)
        q2 == [q1 EXCEPT !.size = @ - 1]
    IN [w |-> [w EXCEPT !.heap = h2, !.dq[d] = q2], ret |-> RetVal(data)]

\* ------------------------------------------------------------------ aliases
\* the data of the node at an end of a deque, undefined where there is none
EndData(w, end) == IF end = NULL THEN Undefined ELSE w.heap[end].data

\* enqueue() that inserts at the back
enqueue_AtBack(w, d, data) == pushBack(w, d, data)

enqueue(w, d, data) == pushFront(w, d, data)
\* dequeue() that reads the back and takes nothing out
dequeue_Peek(w, d) == [w |-> w, ret |-> RetVal(EndData(w, w.dq[d].tail))]

dequeue(w, d) == popBack(w, d)
push(w, d, data) == pushFront(w, d, data)
\* pop() that removes from the back
pop_AtBack(w, d) == popBack(w, d)

pop(w, d) == popFront(w, d)

\* ------------------------------------------------------------ construction
\* the loop of createFromArray without deque.tail = newNode
RECURSIVE createFromArrayLoop_KeepTail(_, _, _, _)
createFromArrayLoop_KeepTail(w, d, initData, sz) ==
  IF sz < Len(initData) THEN
    LET newNode == Alloc(w)
        tail == w.dq[d].tail
        h1 == [w.heap EXCEPT ![newNode] = [DequeNodeImpl(initData[sz + 1]) EXCEPT !.prev = tail]]
        h2 == [h1 EXCEPT ![tail].next = newNode]
    IN createFromArrayLoop_KeepTail([w EXCEPT !.heap = h2], d, initData, sz + 1)
  ELSE [w EXCEPT !.dq[d].size = sz]

\* createFromArray(initData, deque): the loop appending initData[size] for
\* size < len, with the deque's tail moving to each new node
RECURSIVE createFromArrayLoop(_, _, _, _)
createFromArrayLoop(w, d, initData, sz) ==
  IF sz < Len(initData) THEN
    LET newNode == Alloc(w)
        tail == w.dq[d].tail
        h1 == [w.heap EXCEPT ![newNode] = [DequeNodeImpl(initData[sz + 1]) EXCEPT !.prev = tail]]
        h2 == [h1 EXCEPT ![tail].next = newNode]
        q1 == [w.dq[d] EXCEPT !.tail = newNode]
    IN createFromArrayLoop([w EXCEPT !.heap = h2, !.dq[d] = q1], d, initData, sz + 1)
  ELSE [w EXCEPT !.dq[d].size = sz]

createFromArray(w, d, initData) ==
  LET len == Len(initData) IN
  IF len > 0 THEN
    LET newNode == Alloc(w)
        h1 == [w.heap EXCEPT ![newNode] = DequeNodeImpl(initData[1])]
        q1 == [w.dq[d] EXCEPT !.head = newNode, !.tail = newNode]
    IN createFromArrayLoop([w EXCEPT !.heap = h1, !.dq[d] = q1], d, initData, 1)
  ELSE createFromArrayLoop(w, d, initData, 0)

\* new DequeImpl(...initData) as deque d: the field initializers, then
\* createFromArray(initData, this)
constructor(w, d, initData) ==
  LET w1 == [w EXCEPT !.dq[d] = EmptyDeque, !.live = @ \cup {d}]
  IN [w |-> createFromArray(w1, d, initData), ret |-> RetDeque(d)]

\* DequeImpl.fromArray(initData): createFromArray(initData, new DequeImpl())
fromArray(w, d, initData) ==
  [w |-> createFromArray(constructor(w, d, <<>>).w, d, initData), ret |-> RetDeque(d)]

\* ------------------------------------------------------------------- clear
\* the loop of clear(): cur steps to cur.next, then the node it left is cleared
RECURSIVE clearLoop(_, _, _)
clearLoop(h, cur, prev) ==
  IF cur # NULL THEN
    LET cur1 == h[cur].next
        h1 == nodeClear(h, prev)
    IN clearLoop(h1, cur1, cur1)
  ELSE h

\* clear() without this._size = 0
clear_KeepSize(w, d) ==
  LET h1 == clearLoop(w.heap, w.dq[d].head, w.dq[d].head)
  IN [w |-> [w EXCEPT !.heap = h1, !.dq[d].head = NULL, !.dq[d].tail = NULL],
      ret |-> RetVoid]

clear(w, d) ==
  LET h1 == clearLoop(w.heap, w.dq[d].head, w.dq[d].head)
  IN [w |-> [w EXCEPT !.heap = h1, !.dq[d] = [head |-> NULL, tail |-> NULL, size |-> 0]],
      ret |-> RetVoid]

\* ---------------------------------------------------------- indexed access
\* An index is a JavaScript number.  The model passes it in halves: ix is
\* twice the index, so that an odd ix is an index with fractional part 0.5.
Ix(i) == 2 * i
IsInteger(ix) == ix % 2 = 0

\* the backward loop of getNodeAtIndex; links counts the links followed
RECURSIVE reverseSearchLoop(_, _, _, _, _)
reverseSearchLoop(h, node, curIdx, ix, links) ==
  IF node = NULL THEN [node |-> NULL, links |-> links]
  ELSE IF Ix(curIdx) = ix THEN [node |-> node, links |-> links]
  ELSE reverseSearchLoop(h, h[node].prev, curIdx - 1, ix, links + 1)

\* the forward loop of getNodeAtIndex
RECURSIVE forwardSearchLoop(_, _, _, _, _)
forwardSearchLoop(h, node, curIdx, ix, links) ==
  IF node = NULL THEN [node |-> NULL, links |-> links]
  ELSE IF Ix(curIdx) = ix THEN [node |-> node, links |-> links]
  ELSE forwardSearchLoop(h, h[node].next, curIdx + 1, ix, links + 1)

\* a lookup that always starts from the head
reverseSearch_Never(w, d, ix) == FALSE

\* index > this.size / 2
reverseSearch(w, d, ix) == ix > size(w, d)

\* getNodeAtIndex with the backward loop counting down from size
getNodeAtIndex_FromSize(w, d, ix) ==
  IF ix >= Ix(size(w, d)) \/ ix < 0 THEN [node |-> NULL, links |-> 0]
  ELSE IF reverseSearch(w, d, ix)
    THEN reverseSearchLoop(w.heap, w.dq[d].tail, size(w, d), ix, 0)
    ELSE forwardSearchLoop(w.heap, w.dq[d].head, 0, ix, 0)

\* getNodeAtIndex(index): the node and the number of links followed; node
\* NULL stands for the undefined result
getNodeAtIndex(w, d, ix) ==
  IF ix >= Ix(size(w, d)) \/ ix < 0 THEN [node |-> NULL, links |-> 0]
  ELSE IF reverseSearch(w, d, ix)
    THEN reverseSearchLoop(w.heap, w.dq[d].tail, size(w, d) - 1, ix, 0)
    ELSE forwardSearchLoop(w.heap, w.dq[d].head, 0, ix, 0)

\* get(index): this.getNodeAtIndex(index)?.data
get(w, d, ix) ==
  LET node == getNodeAtIndex(w, d, ix).node
  IN IF node = NULL THEN Undefined ELSE w.heap[node].data

\* ------------------------------------------------------------ value search
\* the equality functions passed as isEqualFn: the default, and two of the
\* caller's, (val, other) => val === other || other === null, for which
\* null as the value sought matches every element, and () => false
EqFns == {"isEqual", "nullMatchesAll", "never"}

\* isEqualFn(a, b), a being the element's value and b the value sought
ApplyEq(isEqualFn, a, b) ==
  CASE isEqualFn = "isEqual" -> isEqual(a, b)
    [] isEqualFn = "nullMatchesAll" -> a = b \/ b = Null
    [] isEqualFn = "never" -> FALSE

RECURSIVE getNodeByValueLoop(_, _, _, _, _)
getNodeByValueLoop(h, node, index, value, isEqualFn) ==
  IF node = NULL THEN [node |-> NULL, index |-> -1]
  ELSE IF ApplyEq(isEqualFn, h[node].data, value) THEN [node |-> node, index |-> index]
  ELSE getNodeByValueLoop(h, h[node].next, index + 1, value, isEqualFn)

\* getNodeByValue(value, isEqualFn) that compares with lodash isEqual
getNodeByValue_DefaultEq(w, d, value, isEqualFn) ==
  getNodeByValueLoop(w.heap, w.dq[d].head, 0, value, "isEqual")

\* getNodeByValue(value, isEqualFn) with index starting at 1
getNodeByValue_FromOne(w, d, value, isEqualFn) ==
  getNodeByValueLoop(w.heap, w.dq[d].head, 1, value, isEqualFn)

\* getNodeByValue(value, isEqualFn); node NULL stands for undefined
getNodeByValue(w, d, value, isEqualFn) ==
  getNodeByValueLoop(w.heap, w.dq[d].head, 0, value, isEqualFn)

indexOf(w, d, value, isEqualFn) == getNodeByValue(w, d, value, isEqualFn).index

has(w, d, value) == indexOf(w, d, value, "isEqual") > -1

RECURSIVE countLoop(_, _, _, _, _)
countLoop(h, node, value, isEqualFn, cnt) ==
  IF node = NULL THEN cnt
  ELSE countLoop(h, h[node].next, value, isEqualFn,
                 IF ApplyEq(isEqualFn, h[node].data, value) THEN cnt + 1 ELSE cnt)

\* count(value, isEqualFn) that stops at the first match
count_FirstOnly(w, d, value, isEqualFn) ==
  IF getNodeByValue(w, d, value, isEqualFn).node # NULL THEN 1 ELSE 0

count(w, d, value, isEqualFn) == countLoop(w.heap, w.dq[d].head, value, isEqualFn, 0)

\* ---------------------------------------------------- positional insertion
\* insert(index, value) that hands only an index above size to pushBack
insert_StrictBack(w, d, ix, value) ==
  IF ix <= 0 THEN pushFront(w, d, value)
  ELSE IF ix > Ix(w.dq[d].size) THEN pushBack(w, d, value)
  ELSE
    LET node == getNodeAtIndex(w, d, ix).node IN
    IF node = NULL THEN [w |-> w, ret |-> RetFault]
    ELSE
      LET prev == w.heap[node].prev IN
      IF prev = NULL THEN [w |-> w, ret |-> RetFault]
      ELSE
        LET newNode == Alloc(w)
            h1 == [w.heap EXCEPT ![newNode] = DequeNodeImpl(value)]
            h2 == [h1 EXCEPT ![prev].next = newNode]
            h3 == [h2 EXCEPT ![node].prev = newNode]
            h4 == [h3 EXCEPT ![newNode].prev = prev]
            h5 == [h4 EXCEPT ![newNode].next = node]
            q1 == [w.dq[d] EXCEPT !.size = @ + 1]
        IN [w |-> [w EXCEPT !.heap = h5, !.dq[d] = q1], ret |-> RetNum(q1.size)]

\* insert(index, value) that links the new node before the node at index - 1
insert_OneEarly(w, d, ix, value) ==
  IF ix <= 0 THEN pushFront(w, d, value)
  ELSE IF ix >= Ix(w.dq[d].size) THEN pushBack(w, d, value)
  ELSE
    LET node == getNodeAtIndex(w, d, ix - 2).node IN
    IF node = NULL THEN [w |-> w, ret |-> RetFault]
    ELSE
      LET prev == w.heap[node].prev IN
      IF prev = NULL THEN [w |-> w, ret |-> RetFault]
      ELSE
        LET newNode == Alloc(w)
            h1 == [w.heap EXCEPT ![newNode] = DequeNodeImpl(value)]
            h2 == [h1 EXCEPT ![prev].next = newNode]
            h3 == [h2 EXCEPT ![node].prev = newNode]
            h4 == [h3 EXCEPT ![newNode].prev = prev]
            h5 == [h4 EXCEPT ![newNode].next = node]
            q1 == [w.dq[d] EXCEPT !.size = @ + 1]
        IN [w |-> [w EXCEPT !.heap = h5, !.dq[d] = q1], ret |-> RetNum(q1.size)]

\* insert(index, value) without node.prev = newNode
insert_NoBackLink(w, d, ix, value) ==
  IF ix <= 0 THEN pushFront(w, d, value)
  ELSE IF ix >= Ix(w.dq[d].size) THEN pushBack(w, d, value)
  ELSE
    LET node == getNodeAtIndex(w, d, ix).node IN
    IF node = NULL THEN [w |-> w, ret |-> RetFault]
    ELSE
      LET prev == w.heap[node].prev IN
      IF prev = NULL THEN [w |-> w, ret |-> RetFault]
      ELSE
        LET newNode == Alloc(w)
            h1 == [w.heap EXCEPT ![newNode] = DequeNodeImpl(value)]
            h2 == [h1 EXCEPT ![prev].next = newNode]
            h4 == [h2 EXCEPT ![newNode].prev = prev]
            h5 == [h4 EXCEPT ![newNode].next = node]
            q1 == [w.dq[d] EXCEPT !.size = @ + 1]
        IN [w |-> [w EXCEPT !.heap = h5, !.dq[d] = q1], ret |-> RetNum(q1.size)]

\* insert(index, value).  Reading node.prev of an undefined node, or writing
\* prev.next on a null prev, throws a TypeError before anything is changed.
insert(w, d, ix, value) ==
  IF ix <= 0 THEN pushFront(w, d, value)
  ELSE IF ix >= Ix(w.dq[d].size) THEN pushBack(w, d, value)
  ELSE
    LET node == getNodeAtIndex(w, d, ix).node IN
    IF node = NULL THEN [w |-> w, ret |-> RetFault]
    ELSE
      LET prev == w.heap[node].prev IN
      IF prev = NULL THEN [w |-> w, ret |-> RetFault]
      ELSE
        LET newNode == Alloc(w)
            h1 == [w.heap EXCEPT ![newNode] = DequeNodeImpl(value)]
            h2 == [h1 EXCEPT ![prev].next = newNode]
            h3 == [h2 EXCEPT ![node].prev = newNode]
            h4 == [h3 EXCEPT ![newNode].prev = prev]
            h5 == [h4 EXCEPT ![newNode].next = node]
            q1 == [w.dq[d] EXCEPT !.size = @ + 1]
        IN [w |-> [w EXCEPT !.heap = h5, !.dq[d] = q1], ret |-> RetNum(q1.size)]

\* --------------------------------------------------------- removal by value
\* remove(value, isEqualFn) without this._size-- in the interior branch
remove_KeepSize(w, d, value, isEqualFn) ==
  LET node == getNodeByValue(w, d, value, isEqualFn).node IN
  IF node # NULL THEN
    IF node = w.dq[d].head THEN popFront(w, d)
    ELSE IF node = w.dq[d].tail THEN popBack(w, d)
    ELSE
      LET valRemoved == w.heap[node].data
          next == w.heap[node].next
          prev == w.heap[node].prev
          h1 == nodeClear(w.heap, node)
      IN IF prev = NULL THEN [w |-> [w EXCEPT !.heap = h1], ret |-> RetFault]
         ELSE
           LET h2 == [h1 EXCEPT ![prev].next = next] IN
           IF next = NULL THEN [w |-> [w EXCEPT !.heap = h2], ret |-> RetFault]
           ELSE
             LET h3 == [h2 EXCEPT ![next].prev = prev]
                 q1 == w.dq[d]
             IN [w |-> [w EXCEPT !.heap = h3, !.dq[d] = q1], ret |-> RetVal(valRemoved)]
  ELSE [w |-> w, ret |-> RetVal(Undefined)]

\* remove(value, isEqualFn) that drops the tail when nothing matches
remove_PopOnMiss(w, d, value, isEqualFn) ==
  LET node == getNodeByValue(w, d, value, isEqualFn).node IN
  IF node # NULL THEN
    IF node = w.dq[d].head THEN popFront(w, d)
    ELSE IF node = w.dq[d].tail THEN popBack(w, d)
    ELSE
      LET valRemoved == w.heap[node].data
          next == w.heap[node].next
          prev == w.heap[node].prev
          h1 == nodeClear(w.heap, node)
      IN IF prev = NULL THEN [w |-> [w EXCEPT !.heap = h1], ret |-> RetFault]
         ELSE
           LET h2 == [h1 EXCEPT ![prev].next = next] IN
           IF next = NULL THEN [w |-> [w EXCEPT !.heap = h2], ret |-> RetFault]
           ELSE
             LET h3 == [h2 EXCEPT ![next].prev = prev]
                 q1 == [w.dq[d] EXCEPT !.size = @ - 1]
             IN [w |-> [w EXCEPT !.heap = h3, !.dq[d] = q1], ret |-> RetVal(valRemoved)]
  ELSE [w |-> popBack(w, d).w, ret |-> RetVal(Undefined)]

\* remove(value, isEqualFn) without next.prev = prev
remove_NoBackLink(w, d, value, isEqualFn) ==
  LET node == getNodeByValue(w, d, value, isEqualFn).node IN
  IF node # NULL THEN
    IF node = w.dq[d].head THEN popFront(w, d)
    ELSE IF node = w.dq[d].tail THEN popBack(w, d)
    ELSE
      LET valRemoved == w.heap[node].data
          next == w.heap[node].next
          prev == w.heap[node].prev
          h1 == nodeClear(w.heap, node)
          h2 == [h1 EXCEPT ![prev].next = next]
          q1 == [w.dq[d] EXCEPT !.size = @ - 1]
      IN [w |-> [w EXCEPT !.heap = h2, !.dq[d] = q1], ret |-> RetVal(valRemoved)]
  ELSE [w |-> w, ret |-> RetVal(Undefined)]

\* remove(value, isEqualFn).  In the interior branch node.clear() runs
\* first; a null prev or next then throws with the node already cleared.
remove(w, d, value, isEqualFn) ==
  LET node == getNodeByValue(w, d, value, isEqualFn).node IN
  IF node # NULL THEN
    IF node = w.dq[d].head THEN popFront(w, d)
    ELSE IF node = w.dq[d].tail THEN popBack(w, d)
    ELSE
      LET valRemoved == w.heap[node].data
          next == w.heap[node].next
          prev == w.heap[node].prev
          h1 == nodeClear(w.heap, node)
      IN IF prev = NULL THEN [w |-> [w EXCEPT !.heap = h1], ret |-> RetFault]
         ELSE
           LET h2 == [h1 EXCEPT ![prev].next = next] IN
           IF next = NULL THEN [w |-> [w EXCEPT !.heap = h2], ret |-> RetFault]
           ELSE
             LET h3 == [h2 EXCEPT ![next].prev = prev]
                 q1 == [w.dq[d] EXCEPT !.size = @ - 1]
             IN [w |-> [w EXCEPT !.heap = h3, !.dq[d] = q1], ret |-> RetVal(valRemoved)]
  ELSE [w |-> w, ret |-> RetVal(Undefined)]

\* ------------------------------------------------------------------ toArray
Max(a, b) == IF a >= b THEN a ELSE b

\* the loop of toArray(): arr[i] = cloneFn(cur.data) for the nodes from head
\* the loop of toArray() without i++
RECURSIVE toArrayLoop_NoStep(_, _, _, _)
toArrayLoop_NoStep(h, cur, i, arr) ==
  IF cur = NULL THEN arr
  ELSE
    LET v == cloneDeep(h[cur].data)
        arr1 == [k \in 1..Max(Len(arr), i + 1) |->
                   IF k = i + 1 THEN v ELSE IF k <= Len(arr) THEN arr[k] ELSE Undefined]
    IN toArrayLoop_NoStep(h, h[cur].next, i, arr1)

RECURSIVE toArrayLoop(_, _, _, _)
toArrayLoop(h, cur, i, arr) ==
  IF cur = NULL THEN arr
  ELSE
    LET v == cloneDeep(h[cur].data)
        arr1 == [k \in 1..Max(Len(arr), i + 1) |->
                   IF k = i + 1 THEN v ELSE IF k <= Len(arr) THEN arr[k] ELSE Undefined]
    IN toArrayLoop(h, h[cur].next, i + 1, arr1)

\* toArray(): an array of length size, filled from the head
toArray(w, d) ==
  toArrayLoop(w.heap, w.dq[d].head, 0, [k \in 1..w.dq[d].size |-> Undefined])

\* ------------------------------------------------------------------ reverse
\* the loop of reverse() without cur.prev = next
RECURSIVE reverseLoop_KeepPrev(_, _, _)
reverseLoop_KeepPrev(h, cur, prev) ==
  IF cur # NULL THEN
    LET next == h[cur].next
        h1 == [h EXCEPT ![cur].next = h[cur].prev]
    IN reverseLoop_KeepPrev(h1, next, cur)
  ELSE [heap |-> h, prev |-> prev]

RECURSIVE reverseLoop(_, _, _)
reverseLoop(h, cur, prev) ==
  IF cur # NULL THEN
    LET next == h[cur].next
        h1 == [h EXCEPT ![cur].next = h[cur].prev]
        h2 == [h1 EXCEPT ![cur].prev = next]
    IN reverseLoop(h2, next, cur)
  ELSE [heap |-> h, prev |-> prev]

\* reverse() without this.tail = oldHead
reverse_KeepTail(w, d) ==
  LET r == reverseLoop(w.heap, w.dq[d].head, NULL)
  IN [w |-> [w EXCEPT !.heap = r.heap, !.dq[d].head = r.prev], ret |-> RetDeque(d)]

reverse(w, d) ==
  LET oldHead == w.dq[d].head
      r == reverseLoop(w.heap, w.dq[d].head, NULL)
  IN [w |-> [w EXCEPT !.heap = r.heap, !.dq[d].head = r.prev, !.dq[d].tail = oldHead],
      ret |-> RetDeque(d)]

\* --------------------------------------------------------------------- copy
\* the loop of copy(): copy.pushBack(cloneFn(cur.data)) for the nodes of d
\* the loop of copy() without cloneFn
RECURSIVE copyLoop_NoClone(_, _, _, _)
copyLoop_NoClone(w, d, e, cur) ==
  IF cur # NULL THEN
    copyLoop_NoClone(pushBack(w, e, w.heap[cur].data).w, d, e, w.heap[cur].next)
  ELSE w

\* the loop of copy() with copy.pushFront in place of copy.pushBack
RECURSIVE copyLoop_PushFront(_, _, _, _)
copyLoop_PushFront(w, d, e, cur) ==
  IF cur # NULL THEN
    copyLoop_PushFront(pushFront(w, e, cloneDeep(w.heap[cur].data)).w, d, e, w.heap[cur].next)
  ELSE w

\* the loop of copy() that moves the elements over: copy.pushBack(this.popFront())
RECURSIVE copyLoop_Drain(_, _, _, _)
copyLoop_Drain(w, d, e, cur) ==
  IF w.dq[d].size > 0 THEN
    LET p == popFront(w, d)
    IN copyLoop_Drain(pushBack(p.w, e, cloneDeep(p.ret.v)).w, d, e, cur)
  ELSE w

RECURSIVE copyLoop(_, _, _, _)
copyLoop(w, d, e, cur) ==
  IF cur # NULL THEN
    copyLoop(pushBack(w, e, cloneDeep(w.heap[cur].data)).w, d, e, w.heap[cur].next)
  ELSE w

\* copy() that hands out the nodes of deque d themselves
copy_Alias(w, d, e) ==
  [w |-> [w EXCEPT !.dq[e] = w.dq[d], !.live = @ \cup {e}], ret |-> RetDeque(e)]

\* copy() of deque d; the new DequeImpl is deque e
copy(w, d, e) ==
  [w |-> copyLoop(constructor(w, e, <<>>).w, d, e, w.dq[d].head), ret |-> RetDeque(e)]

\* ----------------------------------------------------------------- toString
\* Text is a sequence of characters; += is \o.
\* Array.isArray(val), val.length and Object.keys(val).length of the values
\* the model stores: the reference &a (and its clones) is a plain object with
\* a key, &b (and its clones) is an array of length 0; all other values are
\* primitives.
IsArray(val) == ContentsOf(val) = "&b"

IsObject(val) == ContentsOf(val) = "&a"

Length(val) == 0

KeyCount(val) == 1

\* String(val) of a primitive
String(val) ==
  CASE val = "1" -> <<"1">>
    [] val = "2" -> <<"2">>
    [] val = "3" -> <<"3">>
    [] val = Null -> <<"n", "u", "l", "l">>
    [] val = Undefined -> <<"u", "n", "d", "e", "f", "i", "n", "e", "d">>

\* what toString() adds to queueStr for the value of one node
ValText(val) ==
  IF IsArray(val) THEN (IF Length(val) # 0 THEN <<"[", ".", ".", ".", "]">> ELSE <<"[", "]">>)
  ELSE IF IsObject(val) THEN (IF KeyCount(val) # 0 THEN <<"{", ".", ".", ".", "}">> ELSE <<"{", "}">>)
  ELSE String(val)

\* the loop of toString() that follows cur.prev in place of cur.next
RECURSIVE toStringLoop_Prev(_, _, _)
toStringLoop_Prev(h, cur, queueStr) ==
  IF cur = NULL THEN queueStr
  ELSE
    LET s1 == queueStr \o ValText(h[cur].data)
        s2 == IF h[cur].next # NULL THEN s1 \o <<",", " ">> ELSE s1
    IN toStringLoop_Prev(h, h[cur].prev, s2)

\* the loop of toString(): the text of each node from cur, ", " between two
RECURSIVE toStringLoop(_, _, _)
toStringLoop(h, cur, queueStr) ==
  IF cur = NULL THEN queueStr
  ELSE
    LET s1 == queueStr \o ValText(h[cur].data)
        s2 == IF h[cur].next # NULL THEN s1 \o <<",", " ">> ELSE s1
    IN toStringLoop(h, h[cur].next, s2)

\* toString()
toString(w, d) ==
  IF w.dq[d].head = NULL THEN
    [w |-> w, ret |-> RetString(<<"D", "e", "q", "u", "e", ":", " ", "D", "e", "q", "u", "e", " ", "i", "s", " ", "e", "m", "p", "t", "y">>)]
  ELSE
    [w |-> w,
     ret |-> RetString(toStringLoop(w.heap, w.dq[d].head, <<"D", "e", "q", "u", "e", ":", " ", "[", " ">>) \o <<" ", "]">>)]

\* ============================================================ state machine
NoWorld ==
  [heap |-> [n \in Nodes |-> [prev |-> NULL, next |-> NULL, data |-> Undefined]],
   dq |-> [d \in DequeIds |-> EmptyDeque],
   live |-> {}]

InitSeqs == UNION {[1..n -> Values] : n \in 0..MaxSize}

\* a call: the method, the deque, and the arguments; eq is the isEqualFn
\* argument, the default where none is passed
Call(name, d, val, ix, arr) ==
  [name |-> name, d |-> d, val |-> val, ix |-> ix, arr |-> arr, eq |-> "isEqual"]

CallWith(name, d, val, isEqualFn) == [Call(name, d, val, 0, <<>>) EXCEPT !.eq = isEqualFn]

\* the effect of a call with result r
Do(call, r) ==
  /\ heap' = r.w.heap
  /\ dq' = r.w.dq
  /\ live' = r.w.live
  /\ op' = call
  /\ ret' = r.ret
  /\ pre' = World

\* the first deque is built by new Deque(...S) or by Deque.fromArray(S)
Init ==
  \E S \in InitSeqs : \E how \in {"constructor", "fromArray"} :
    LET r == IF how = "constructor" THEN constructor(NoWorld, 1, S)
             ELSE fromArray(NoWorld, 1, S)
    IN /\ heap = r.w.heap
       /\ dq = r.w.dq
       /\ live = r.w.live
       /\ op = Call(how, 1, Undefined, 0, S)
       /\ ret = r.ret
       /\ pre = NoWorld
       /\ trace = <<>>

\* a deque is grown only up to MaxSize
CanGrow(d) == size(World, d) < MaxSize

PushFront(d, v) ==
  /\ CanGrow(d)
  /\ Do(Call("pushFront", d, v, 0, <<>>), pushFront(World, d, v))

PushBack(d, v) ==
  /\ CanGrow(d)
  /\ Do(Call("pushBack", d, v, 0, <<>>), pushBack(World, d, v))

Enqueue(d, v) ==
  /\ CanGrow(d)
  /\ Do(Call("enqueue", d, v, 0, <<>>), enqueue(World, d, v))

Push(d, v) ==
  /\ CanGrow(d)
  /\ Do(Call("push", d, v, 0, <<>>), push(World, d, v))

PopFront(d) == Do(Call("popFront", d, Undefined, 0, <<>>), popFront(World, d))

PopBack(d) == Do(Call("popBack", d, Undefined, 0, <<>>), popBack(World, d))

Dequeue(d) == Do(Call("dequeue", d, Undefined, 0, <<>>), dequeue(World, d))

Pop(d) == Do(Call("pop", d, Undefined, 0, <<>>), pop(World, d))

\* the indices tried: -FarIndex, -0.5, 0, 0.5, 1, ..., size, FarIndex
IndexInputs(d) == {-Ix(FarIndex), Ix(FarIndex)} \cup ((-1)..Ix(size(World, d)))

Insert(d, ix, v) ==
  /\ CanGrow(d)
  /\ Do(Call("insert", d, v, ix, <<>>), insert(World, d, ix, v))

Remove(d, v) == Do(Call("remove", d, v, 0, <<>>), remove(World, d, v, "isEqual"))

Clear(d) == Do(Call("clear", d, Undefined, 0, <<>>), clear(World, d))

Reverse(d) == Do(Call("reverse", d, Undefined, 0, <<>>), reverse(World, d))

\* const c = deque.copy(): deque e is the copy
Copy(d, e) ==
  /\ e \notin live
  /\ FreeSlots(World) >= size(World, d)
  /\ Do(Call("copy", d, Undefined, 0, <<>>), copy(World, d, e))

\* the caller lets go of deque e and its nodes are reclaimed
DropDeque(e) ==
  /\ e \in live
  /\ heap' = [n \in Nodes |-> IF n \in SeqRange(Linked(World, e))
                               THEN NoWorld.heap[n] ELSE heap[n]]
  /\ dq' = [dq EXCEPT ![e] = EmptyDeque]
  /\ live' = live \ {e}
  /\ op' = Call("drop", e, Undefined, 0, <<>>)
  /\ ret' = RetVoid
  /\ pre' = World

\* a push has been made whose pop is due at once (see SpecRoundTrip); never
\* so where no run is scripted and trace stays empty
InRoundTrip == Len(trace) = 1

\* a call on deque 1 outside a scripted run, while no copy of it is held
Free == ~InRoundTrip /\ live = {1} /\ trace' = <<>>

\* One step of the caller of deque 1: any mutating call, or a copy of the
\* deque that is taken, looked at and let go again before the next call.
Step ==
  \/ Free /\ \E v \in Values : PushFront(1, v)
  \/ Free /\ \E v \in Values : PushBack(1, v)
  \/ Free /\ \E v \in Values : Enqueue(1, v)
  \/ Free /\ \E v \in Values : Push(1, v)
  \/ Free /\ PopFront(1)
  \/ Free /\ PopBack(1)
  \/ Free /\ Dequeue(1)
  \/ Free /\ Pop(1)
  \/ Free /\ \E v \in Values : \E ix \in IndexInputs(1) : Insert(1, ix, v)
  \/ Free /\ \E v \in Values : Remove(1, v)
  \/ Free /\ Clear(1)
  \/ Free /\ Reverse(1)
  \/ Free /\ Copy(1, 2)
  \/ ~InRoundTrip /\ trace' = <<>> /\ DropDeque(2)

Next == Step

Spec == Init /\ [][Next]_vars

\* ------------------------------------------------------------ scripted runs
\* the log entry of the call a step makes: the call, what it returned and
\* the world it was made in
Entry == [call |-> op', ret |-> ret', before |-> World]

\* A push and the pop right after it: between two arbitrary calls the
\* caller may push at one end and then at once pop at the same end; trace
\* holds the push, then the push and the pop.
PushFrontThenPop ==
  \/ /\ ~InRoundTrip
     /\ live = {1}
     /\ \E v \in Values : PushFront(1, v)
     /\ trace' = <<Entry>>
  \/ /\ InRoundTrip
     /\ trace[1].call.name = "pushFront"
     /\ PopFront(1)
     /\ trace' = Append(trace, Entry)

PushBackThenPop ==
  \/ /\ ~InRoundTrip
     /\ live = {1}
     /\ \E v \in Values : PushBack(1, v)
     /\ trace' = <<Entry>>
  \/ /\ InRoundTrip
     /\ trace[1].call.name = "pushBack"
     /\ PopBack(1)
     /\ trace' = Append(trace, Entry)

NextRoundTrip ==
  \/ Step
  \/ PushFrontThenPop
  \/ PushBackThenPop

SpecRoundTrip == Init /\ [][NextRoundTrip]_vars

\* A queue filled and drained: a new Deque() takes enqueue calls, then
\* dequeue calls, one more of them than there were values; trace holds
\* every call.
IsEnqueue(e) == e.call.name = "enqueue"
IsDequeue(e) == e.call.name = "dequeue"
Enqueued == SelectSeq(trace, IsEnqueue)
Dequeued == SelectSeq(trace, IsDequeue)

InitQueue ==
  LET r == constructor(NoWorld, 1, <<>>)
  IN /\ heap = r.w.heap
     /\ dq = r.w.dq
     /\ live = r.w.live
     /\ op = Call("constructor", 1, Undefined, 0, <<>>)
     /\ ret = r.ret
     /\ pre = NoWorld
     /\ trace = <<>>

Fill ==
  /\ Dequeued = <<>>
  /\ \E v \in Values : Enqueue(1, v)
  /\ trace' = Append(trace, Entry)

Drain ==
  /\ Enqueued # <<>>
  /\ Len(Dequeued) <= Len(Enqueued)
  /\ Dequeue(1)
  /\ trace' = Append(trace, Entry)

NextQueue == Fill \/ Drain

SpecQueue == InitQueue /\ [][NextQueue]_vars

\* A stack pushed and popped: from any state the caller makes push calls and
\* then pop calls, at most as many as the pushes; trace holds every call of
\* the run.
IsStackPush(e) == e.call.name = "push"
IsStackPop(e) == e.call.name = "pop"
Pushed == SelectSeq(trace, IsStackPush)
Popped == SelectSeq(trace, IsStackPop)

StackPush ==
  /\ Popped = <<>>
  /\ live = {1}
  /\ \E v \in Values : Push(1, v)
  /\ trace' = Append(trace, Entry)

StackPop ==
  /\ Len(Popped) < Len(Pushed)
  /\ Pop(1)
  /\ trace' = Append(trace, Entry)

NextStack ==
  \/ Step
  \/ StackPush
  \/ StackPop

SpecStack == Init /\ [][NextStack]_vars

\* ----------------------------------------------------------------- queries
\* the calls that return a value and assign nothing
Front(d) == Do(Call("front", d, Undefined, 0, <<>>), [w |-> World, ret |-> RetVal(front(World, d))])

Back(d) == Do(Call("back", d, Undefined, 0, <<>>), [w |-> World, ret |-> RetVal(back(World, d))])

Get(d, ix) == Do(Call("get", d, Undefined, ix, <<>>), [w |-> World, ret |-> RetVal(get(World, d, ix))])

IndexOf(d, v) ==
  Do(Call("indexOf", d, v, 0, <<>>), [w |-> World, ret |-> RetNum(indexOf(World, d, v, "isEqual"))])

Has(d, v) == Do(Call("has", d, v, 0, <<>>), [w |-> World, ret |-> RetBool(has(World, d, v))])

Count(d, v) ==
  Do(Call("count", d, v, 0, <<>>), [w |-> World, ret |-> RetNum(count(World, d, v, "isEqual"))])

Size(d) == Do(Call("size", d, Undefined, 0, <<>>), [w |-> World, ret |-> RetNum(size(World, d))])

ToArray(d) ==
  Do(Call("toArray", d, Undefined, 0, <<>>), [w |-> World, ret |-> RetArray(toArray(World, d))])

CallToString(d) == Do(Call("toString", d, Undefined, 0, <<>>), toString(World, d))

\* The caller of deque 1 also asks: between any two calls of Step any of
\* the calls that return a value may be made.
NextQuery ==
  \/ Step
  \/ Free /\ Size(1)
  \/ Free /\ Front(1)
  \/ Free /\ Back(1)
  \/ Free /\ \E ix \in IndexInputs(1) : Get(1, ix)
  \/ Free /\ \E v \in Values : IndexOf(1, v)
  \/ Free /\ \E v \in Values : Has(1, v)
  \/ Free /\ \E v \in Values : Count(1, v)
  \/ Free /\ ToArray(1)
  \/ Free /\ CallToString(1)

SpecQuery == Init /\ [][NextQuery]_vars

\* A deque and one call: a deque built from a sequence of up to MaxLong
\* values is queried any number of times and then given one insert or
\* remove call, which trace holds.
LongSeqs == UNION {[1..n -> Values] : n \in 0..MaxLong}

InitOneCall ==
  \E S \in LongSeqs :
    LET r == constructor(NoWorld, 1, S)
    IN /\ heap = r.w.heap
       /\ dq = r.w.dq
       /\ live = r.w.live
       /\ op = Call("constructor", 1, Undefined, 0, S)
       /\ ret = r.ret
       /\ pre = NoWorld
       /\ trace = <<>>

\* insert on a deque of any size the arena has room for
InsertLong(d, ix, v) ==
  /\ FreeSlots(World) > 0
  /\ Do(Call("insert", d, v, ix, <<>>), insert(World, d, ix, v))

Untouched == trace = <<>> /\ trace' = trace

NextOneCall ==
  \/ Untouched /\ Front(1)
  \/ Untouched /\ Back(1)
  \/ Untouched /\ \E ix \in IndexInputs(1) : Get(1, ix)
  \/ Untouched /\ \E v \in Values : IndexOf(1, v)
  \/ Untouched /\ \E v \in Values : Has(1, v)
  \/ Untouched /\ \E v \in Values : Count(1, v)
  \/ /\ trace = <<>>
     /\ \E v \in Values : \E ix \in IndexInputs(1) : InsertLong(1, ix, v)
     /\ trace' = <<Entry>>
  \/ /\ trace = <<>>
     /\ \E v \in Values : Remove(1, v)
     /\ trace' = <<Entry>>

SpecOneCall == InitOneCall /\ [][NextOneCall]_vars

\* A deque reversed twice: between two arbitrary calls the caller may call
\* reverse() and then at once reverse() again; trace holds the first call,
\* then both.
ReverseTwice ==
  \/ /\ ~InRoundTrip
     /\ live = {1}
     /\ Reverse(1)
     /\ trace' = <<Entry>>
  \/ /\ InRoundTrip
     /\ trace[1].call.name = "reverse"
     /\ Reverse(1)
     /\ trace' = Append(trace, Entry)

NextReverseTwice ==
  \/ Step
  \/ ReverseTwice

SpecReverseTwice == Init /\ [][NextReverseTwice]_vars

\* Two deques held at once: deque 1 and a second deque, which is a copy of
\* deque 1 or is built from an array of its own, and which the caller may
\* let go of and make anew.  Every mutating call is made on either deque.
PairValues == {"1", "2"}

PairSeqs == UNION {[1..n -> PairValues] : n \in 0..(MaxPair - 1)}

InitPair ==
  \E S \in PairSeqs :
    LET r == constructor(NoWorld, 1, S)
    IN /\ heap = r.w.heap
       /\ dq = r.w.dq
       /\ live = r.w.live
       /\ op = Call("constructor", 1, Undefined, 0, S)
       /\ ret = r.ret
       /\ pre = NoWorld
       /\ trace = <<>>

\* the number of elements of the deques held
Held(w) == Len(Linked(w, 1)) + Len(Linked(w, 2))

PairCanGrow == Held(World) < MaxPair

\* const e = new Deque(...S) or Deque.fromArray(S) next to the deques held
NewDeque(e, how, S) ==
  /\ e \notin live
  /\ Held(World) + Len(S) <= MaxPair
  /\ Do(Call(how, e, Undefined, 0, S),
        IF how = "constructor" THEN constructor(World, e, S) ELSE fromArray(World, e, S))

\* a copy is taken of a deque that is not at the cap, which is on growth
PairCopy(d, e) ==
  /\ size(World, d) < MaxPair
  /\ Copy(d, e)

\* the whole indices from the head to one past the tail
WholeIndices(d) == {Ix(i) : i \in 0..size(World, d)}

Same == trace' = trace

NextPair ==
  \/ Same /\ PairCanGrow /\ \E d \in live : \E v \in PairValues : PushFront(d, v)
  \/ Same /\ PairCanGrow /\ \E d \in live : \E v \in PairValues : PushBack(d, v)
  \/ Same /\ \E d \in live : PopFront(d)
  \/ Same /\ \E d \in live : PopBack(d)
  \/ Same /\ PairCanGrow /\ \E d \in live : \E v \in PairValues :
                              \E ix \in WholeIndices(d) : Insert(d, ix, v)
  \/ Same /\ \E d \in live : \E v \in Values : Remove(d, v)
  \/ Same /\ \E d \in live : Clear(d)
  \/ Same /\ \E d \in live : Reverse(d)
  \/ Same /\ PairCopy(1, 2)
  \/ Same /\ \E S \in PairSeqs : \E how \in {"constructor", "fromArray"} : NewDeque(2, how, S)
  \/ Same /\ DropDeque(2)

SpecPair == InitPair /\ [][NextPair]_vars

\* A deque of structured values: deque 1 holds primitives and references
\* to the caller's arrays and objects; it is copied and both deques are
\* read out with toArray().
CloneValues == {"1", "&a", "&b"}

CloneSeqs == UNION {[1..n -> CloneValues] : n \in 0..MaxSize}

InitClone ==
  \E S \in CloneSeqs :
    LET r == constructor(NoWorld, 1, S)
    IN /\ heap = r.w.heap
       /\ dq = r.w.dq
       /\ live = r.w.live
       /\ op = Call("constructor", 1, Undefined, 0, S)
       /\ ret = r.ret
       /\ pre = NoWorld
       /\ trace = <<>>

NextClone ==
  \/ Same /\ live = {1} /\ \E v \in CloneValues : PushBack(1, v)
  \/ Same /\ live = {1} /\ PopFront(1)
  \/ Same /\ Copy(1, 2)
  \/ Same /\ \E d \in live : ToArray(d)
  \/ Same /\ \E d \in live : CallToString(d)
  \/ Same /\ DropDeque(2)

SpecClone == InitClone /\ [][NextClone]_vars

\* A deque and one call with an equality function: the deque of SpecOneCall
\* is searched with indexOf and count under any of EqFns and then given one
\* remove call under any of them.
IndexOfWith(d, v, isEqualFn) ==
  Do(CallWith("indexOf", d, v, isEqualFn),
     [w |-> World, ret |-> RetNum(indexOf(World, d, v, isEqualFn))])

CountWith(d, v, isEqualFn) ==
  Do(CallWith("count", d, v, isEqualFn),
     [w |-> World, ret |-> RetNum(count(World, d, v, isEqualFn))])

RemoveWith(d, v, isEqualFn) ==
  Do(CallWith("remove", d, v, isEqualFn), remove(World, d, v, isEqualFn))

NextEq ==
  \/ Untouched /\ \E v \in Values : \E f \in EqFns : IndexOfWith(1, v, f)
  \/ Untouched /\ \E v \in Values : \E f \in EqFns : CountWith(1, v, f)
  \/ /\ trace = <<>>
     /\ \E v \in Values : \E f \in EqFns : RemoveWith(1, v, f)
     /\ trace' = <<Entry>>

SpecEq == InitOneCall /\ [][NextEq]_vars

\* A deque drained: between two arbitrary calls the caller may empty a
\* deque of n > 0 elements by n calls of one of dequeue, popFront and
\* popBack, and make one call more; trace holds the calls of the run.
DrainKinds == {"dequeue", "popFront", "popBack"}

DrainCall(kind) ==
  \/ kind = "dequeue" /\ Dequeue(1)
  \/ kind = "popFront" /\ PopFront(1)
  \/ kind = "popBack" /\ PopBack(1)

DrainRun ==
  \/ /\ ~InRoundTrip
     /\ live = {1}
     /\ size(World, 1) > 0
     /\ \E kind \in DrainKinds : DrainCall(kind)
     /\ trace' = <<Entry>>
  \/ /\ trace # <<>>
     /\ trace[1].call.name \in DrainKinds
     /\ Len(trace) <= size(trace[1].before, 1)
     /\ DrainCall(trace[1].call.name)
     /\ trace' = Append(trace, Entry)

NextDrain ==
  \/ Step
  \/ DrainRun

SpecDrain == Init /\ [][NextDrain]_vars

\* The README's example: a deque is built from an array of three numbers,
\* then popBack(), popFront(), has(v), size, toString() and pushFront(v) are
\* called in this order; trace holds the calls made so far.
ExampleValues == {"1", "2", "3"}

ExampleSeqs == [1..3 -> ExampleValues]

InitExample ==
  \E S \in ExampleSeqs : \E how \in {"constructor", "fromArray"} :
    LET r == IF how = "constructor" THEN constructor(NoWorld, 1, S)
             ELSE fromArray(NoWorld, 1, S)
    IN /\ heap = r.w.heap
       /\ dq = r.w.dq
       /\ live = r.w.live
       /\ op = Call(how, 1, Undefined, 0, S)
       /\ ret = r.ret
       /\ pre = NoWorld
       /\ trace = <<>>

Logged == trace' = Append(trace, Entry)

NextExample ==
  \/ Len(trace) = 0 /\ PopBack(1) /\ Logged
  \/ Len(trace) = 1 /\ PopFront(1) /\ Logged
  \/ Len(trace) = 2 /\ (\E v \in ExampleValues : Has(1, v)) /\ Logged
  \/ Len(trace) = 3 /\ Size(1) /\ Logged
  \/ Len(trace) = 4 /\ CallToString(1) /\ Logged
  \/ Len(trace) = 5 /\ (\E v \in ExampleValues : PushFront(1, v)) /\ Logged

SpecExample == InitExample /\ [][NextExample]_vars

\* A call between two reverse() calls: between two arbitrary calls the
\* caller may call reverse(), then one of pushFront, pushBack, popFront and
\* popBack, then reverse() again; trace holds the calls of the run so far.
InMirror == Len(trace) \in {1, 2} /\ trace[1].call.name = "reverse"

MirrorRun ==
  \/ /\ ~InRoundTrip /\ Len(trace) # 2
     /\ live = {1}
     /\ Reverse(1)
     /\ trace' = <<Entry>>
  \/ Len(trace) = 1 /\ InMirror /\ (\E v \in Values : PushFront(1, v)) /\ Logged
  \/ Len(trace) = 1 /\ InMirror /\ (\E v \in Values : PushBack(1, v)) /\ Logged
  \/ Len(trace) = 1 /\ InMirror /\ PopFront(1) /\ Logged
  \/ Len(trace) = 1 /\ InMirror /\ PopBack(1) /\ Logged
  \/ Len(trace) = 2 /\ InMirror /\ Reverse(1) /\ Logged

NextMirror ==
  \/ Step
  \/ MirrorRun

SpecMirror == Init /\ [][NextMirror]_vars

\* ================================================================= claims
\* the values deque d holds, read off the next links from its head
Contents(w, d) ==
  LET c == Linked(w, d) IN [i \in 1..Len(c) |-> w.heap[c[i]].data]

IsConstruction == op.name \in {"constructor", "fromArray"}

\* C1: for every initializer sequence S, new Deque(...S) and
\* Deque.fromArray(S) build the same deque: toArray() is S, the first value
\* of S is in the head node and the last in the tail node, size is len(S),
\* and for the empty S head and tail are null and size is 0.
C1_Construction ==
  IsConstruction =>
    LET S == op.arr
        byNew == constructor(NoWorld, 1, S).w
        byFromArray == fromArray(NoWorld, 1, S).w
    IN /\ byNew = byFromArray
       /\ World = byNew
       /\ toArray(World, 1) = S
       /\ size(World, 1) = Len(S)
       /\ S = <<>> => dq[1].head = NULL /\ dq[1].tail = NULL /\ size(World, 1) = 0
       /\ S # <<>> => /\ dq[1].head # NULL
                      /\ dq[1].tail # NULL
                      /\ heap[dq[1].head].data = S[1]
                      /\ heap[dq[1].tail].data = S[Len(S)]

\* a deque built by fromArray from the longest sequence, with different ends
C1_Witness ==
  /\ op.name = "fromArray"
  /\ Len(op.arr) = MaxSize
  /\ op.arr[1] # op.arr[MaxSize]
  /\ size(World, 1) = MaxSize

\* C2: in every state, for every live deque, size is 0 exactly when head is
\* null and exactly when tail is null, and size is never negative.
C2_EmptyIffNoEnds ==
  \A d \in live :
    /\ (dq[d].size = 0) <=> (dq[d].head = NULL)
    /\ (dq[d].head = NULL) <=> (dq[d].tail = NULL)
    /\ dq[d].size >= 0

\* popBack() has just taken the only element
C2_Witness ==
  /\ op.name = "popBack"
  /\ pre.dq[1].size = 1
  /\ dq[1].size = 0
  /\ dq[1].head = NULL
  /\ dq[1].tail = NULL

\* C3: in every state, for every live deque with size > 1: head.prev and
\* tail.next are null, the next links from head visit exactly size distinct
\* nodes and end at tail, and the prev links from tail visit the same nodes
\* in the opposite order and end at head.
C3_ChainsMatchSize ==
  \A d \in live :
    dq[d].size > 1 =>
      LET f == NextChain(heap, dq[d].head, MaxNodes + 1)
          b == PrevChain(heap, dq[d].tail, MaxNodes + 1)
          n == dq[d].size
      IN /\ dq[d].head # NULL
         /\ dq[d].tail # NULL
         /\ heap[dq[d].head].prev = NULL
         /\ heap[dq[d].tail].next = NULL
         /\ Len(f) = n
         /\ Cardinality(SeqRange(f)) = n
         /\ f[n] = dq[d].tail
         /\ Len(b) = n
         /\ b[n] = dq[d].head
         /\ \A i \in 1..n : b[i] = f[n + 1 - i]

\* insert() has just spliced a node between the head and the tail
C3_Witness ==
  /\ op.name = "insert"
  /\ ret.t = "number"
  /\ op.ix > 0
  /\ op.ix < Ix(pre.dq[1].size)
  /\ dq[1].size = pre.dq[1].size + 1
  /\ dq[1].size > 2

\* C4: in every state, for every node n linked in a live deque: if n.prev
\* is not null then n.prev.next is n, and if n.next is not null then
\* n.next.prev is n.
C4_LinksAgree ==
  \A d \in live :
    \A n \in SeqRange(Linked(World, d)) :
      /\ heap[n].prev # NULL => heap[heap[n].prev].next = n
      /\ heap[n].next # NULL => heap[heap[n].next].prev = n

\* remove() has just spliced out a node that was neither head nor tail
C4_Witness ==
  /\ op.name = "remove"
  /\ pre.dq[1].size > 2
  /\ dq[1].size = pre.dq[1].size - 1
  /\ dq[1].head = pre.dq[1].head
  /\ dq[1].tail = pre.dq[1].tail

IsPop == op.name \in {"popFront", "popBack", "pop", "dequeue"}

\* C5: whenever size is 1, head and tail are the same node with prev and
\* next null, so front() = back(); after a pop takes a 2-element deque down
\* to one element, front() and back() both return the remaining value; and
\* a pushBack(v) on a 1-element deque leaves front() unchanged and makes
\* back() = v.
C5_SingleNode ==
  /\ \A d \in live :
       dq[d].size = 1 =>
         /\ dq[d].head # NULL
         /\ dq[d].head = dq[d].tail
         /\ heap[dq[d].head].prev = NULL
         /\ heap[dq[d].head].next = NULL
         /\ front(World, d) = back(World, d)
  /\ (IsPop /\ pre.dq[op.d].size = 2) =>
       LET A == toArray(pre, op.d)
           remaining == IF op.name \in {"popFront", "pop"} THEN A[2] ELSE A[1]
       IN /\ dq[op.d].size = 1
          /\ front(World, op.d) = remaining
          /\ back(World, op.d) = remaining
  /\ (op.name = "pushBack" /\ pre.dq[op.d].size = 1) =>
       /\ front(World, op.d) = front(pre, op.d)
       /\ back(World, op.d) = op.val

\* C6: pushFront(v) on contents A makes the contents <<v>> \o A and
\* pushBack(v) makes them A \o <<v>>; each adds exactly 1 to size and
\* returns the new size; on an empty deque head and tail both become the
\* new node.
C6_PushEnds ==
  (op.name \in {"pushFront", "pushBack"}) =>
    LET d == op.d
        A == toArray(pre, d)
    IN /\ op.name = "pushFront" => toArray(World, d) = <<op.val>> \o A
       /\ op.name = "pushBack" => toArray(World, d) = A \o <<op.val>>
       /\ dq[d].size = pre.dq[d].size + 1
       /\ ret = RetNum(dq[d].size)
       /\ pre.dq[d].size = 0 =>
            /\ dq[d].head # NULL
            /\ dq[d].head = dq[d].tail
            /\ dq[d].head \notin SeqRange(Linked(pre, d))
            /\ heap[dq[d].head] = DequeNodeImpl(op.val)

\* pushBack() has just put the first element into an empty deque
C6_Witness ==
  /\ op.name = "pushBack"
  /\ pre.dq[1].size = 0
  /\ dq[1].size = 1
  /\ dq[1].head = dq[1].tail
  /\ dq[1].head # NULL

\* C7: on a deque with contents A, not empty, popFront() returns A[0] and
\* leaves A without its first element, popBack() returns the last element
\* and leaves A without it; each takes exactly 1 from size, and popping the
\* only element sets head and tail to null.
C7_PopEnds ==
  (op.name \in {"popFront", "popBack"} /\ Len(toArray(pre, op.d)) > 0) =>
    LET d == op.d
        A == toArray(pre, d)
    IN /\ op.name = "popFront" => ret = RetVal(A[1]) /\ toArray(World, d) = Tail(A)
       /\ op.name = "popBack" =>
            ret = RetVal(A[Len(A)]) /\ toArray(World, d) = SubSeq(A, 1, Len(A) - 1)
       /\ dq[d].size = pre.dq[d].size - 1
       /\ Len(A) = 1 => dq[d].head = NULL /\ dq[d].tail = NULL

\* popFront() has just taken the first of several elements, and the one
\* behind it holds another value
C7_Witness ==
  /\ op.name = "popFront"
  /\ pre.dq[1].size = MaxSize
  /\ dq[1].size = MaxSize - 1
  /\ ret.v # heap[dq[1].head].data

C9_PushPopRoundTrip ==
  Len(trace) = 2 =>
    LET pushed == trace[1]
        popped == trace[2]
        prior == pushed.before
    IN /\ popped.ret = RetVal(pushed.call.val)
       /\ toArray(World, 1) = toArray(prior, 1)
       /\ size(World, 1) = size(prior, 1)
       /\ front(World, 1) = front(prior, 1)
       /\ back(World, 1) = back(prior, 1)

\* pushBack(v) and popBack() have just run on a deque of several elements
\* whose last value is not v
C9_Witness ==
  /\ Len(trace) = 2
  /\ trace[1].call.name = "pushBack"
  /\ trace[2].call.name = "popBack"
  /\ size(trace[1].before, 1) > 1
  /\ back(trace[1].before, 1) # trace[1].call.val
  /\ trace[2].ret.v = trace[1].call.val

Min(a, b) == IF a <= b THEN a ELSE b

C11_Lifo ==
  /\ \A i \in 1..Len(Popped) :
       Popped[i].ret = RetVal(Pushed[Len(Pushed) + 1 - i].call.val)
  /\ \A k \in 1..Len(trace) :
       LET after == IF k = Len(trace) THEN World ELSE trace[k + 1].before IN
       /\ IsStackPush(trace[k]) =>
            LET r == pushFront(trace[k].before, 1, trace[k].call.val)
            IN after = r.w /\ trace[k].ret = r.ret
       /\ IsStackPop(trace[k]) =>
            LET r == popFront(trace[k].before, 1)
            IN after = r.w /\ trace[k].ret = r.ret
  /\ (Pushed # <<>> /\ Len(Popped) = Len(Pushed)) =>
       /\ toArray(World, 1) = toArray(trace[1].before, 1)
       /\ size(World, 1) = size(trace[1].before, 1)

\* two unlike values have been pushed on a deque that was not empty and
\* popped again
C11_Witness ==
  /\ Len(Pushed) = 2
  /\ Len(Popped) = 2
  /\ size(trace[1].before, 1) > 0
  /\ Pushed[1].call.val # Pushed[2].call.val
  /\ Popped[1].ret.v = Pushed[2].call.val
  /\ Popped[2].ret.v = Pushed[1].call.val


\* C12: on a deque that is not empty front() returns the value stored in
\* the head node and back() the value stored in the tail node, whatever the
\* value (null too); on an empty deque both return undefined; neither call
\* changes the deque.
C12_FrontBack ==
  /\ op.name = "front" =>
       ret = RetVal(EndData(pre, pre.dq[op.d].head)) /\ World = pre
  /\ op.name = "back" =>
       ret = RetVal(EndData(pre, pre.dq[op.d].tail)) /\ World = pre


\* index (in halves) is a whole number inside [0, size)
InRange(w, d, ix) == IsInteger(ix) /\ 0 <= ix /\ ix < Ix(size(w, d))

\* C13: get(index) returns the element at 0-based position index of the
\* head-to-tail order for every whole index in [0, size), from whichever end
\* the lookup walks; for an index below 0 or at or above size it returns
\* undefined and raises no fault; get does not change the deque.
C13_Get ==
  op.name = "get" =>
    /\ World = pre
    /\ ret.t = "value"
    /\ InRange(pre, op.d, op.ix) => ret.v = Contents(pre, op.d)[(op.ix \div 2) + 1]
    /\ (op.ix < 0 \/ op.ix >= Ix(size(pre, op.d))) => ret.v = Undefined

\* get found its element walking backward over at least one link, and the
\* element differs from the one at the tail
C13_Witness ==
  /\ op.name = "get"
  /\ InRange(pre, op.d, op.ix)
  /\ reverseSearch(pre, op.d, op.ix)
  /\ getNodeAtIndex(pre, op.d, op.ix).links >= 1
  /\ ret.v = Contents(pre, op.d)[(op.ix \div 2) + 1]
  /\ ret.v # back(pre, op.d)


\* C14: insert(i, v) rejects no index outside the deque: for every i <= 0,
\* however negative, the deque and the returned number are those of
\* pushFront(v); for every i >= size, however large, and for every i on an
\* empty deque, they are those of pushBack(v).
C14_InsertClamps ==
  op.name = "insert" =>
    LET A == Contents(pre, op.d)
        f == pushFront(pre, op.d, op.val)
        b == pushBack(pre, op.d, op.val)
    IN /\ op.ix <= 0 =>
            /\ World = f.w /\ ret = f.ret
            /\ Contents(World, op.d) = <<op.val>> \o A
            /\ ret = RetNum(Len(A) + 1)
       /\ op.ix >= Ix(Len(A)) =>
            /\ World = b.w /\ ret = b.ret
            /\ Contents(World, op.d) = Append(A, op.val)
            /\ ret = RetNum(Len(A) + 1)
       /\ (A = <<>>) => World = b.w /\ World = f.w /\ ret = RetNum(1)

\* insert at exactly index size, or at the far index, appended to a deque
\* that was not empty
C14_Witness ==
  /\ op.name = "insert"
  /\ op.ix \in {Ix(size(pre, op.d)), Ix(FarIndex)}
  /\ size(pre, op.d) >= 1
  /\ Contents(pre, op.d)[1] # op.val
  /\ Contents(World, op.d) = Append(Contents(pre, op.d), op.val)

\* the sequence s without its elements equal to x
Without(s, x) == SelectSeq(s, LAMBDA y : y # x)

\* C15: for every whole i with 0 < i < size and contents A, insert(i, v)
\* makes the contents A[0..i-1] ++ [v] ++ A[i..]: get(i) is v afterwards,
\* the elements before i stay, those from i on move up by one, the head and
\* tail nodes are the same nodes, size grows by exactly 1 and the new size is
\* returned.
C15_InsertInterior ==
  (op.name = "insert" /\ InRange(pre, op.d, op.ix) /\ op.ix > 0) =>
    LET A == Contents(pre, op.d)
        B == Contents(World, op.d)
        i == op.ix \div 2
    IN /\ B = SubSeq(A, 1, i) \o <<op.val>> \o SubSeq(A, i + 1, Len(A))
       /\ get(World, op.d, op.ix) = op.val
       /\ \A k \in 0..(i - 1) : get(World, op.d, Ix(k)) = A[k + 1]
       /\ \A k \in i..(Len(A) - 1) : get(World, op.d, Ix(k + 1)) = A[k + 1]
       /\ World.dq[op.d].head = pre.dq[op.d].head
       /\ World.dq[op.d].tail = pre.dq[op.d].tail
       /\ Without(Linked(World, op.d), Linked(World, op.d)[i + 1]) = Linked(pre, op.d)
       /\ size(World, op.d) = size(pre, op.d) + 1
       /\ ret = RetNum(size(World, op.d))

\* an insert in the back half of a deque of at least four elements, found
\* by the backward walk, with a value that differs from both neighbours
C15_Witness ==
  /\ op.name = "insert"
  /\ InRange(pre, op.d, op.ix) /\ op.ix > 0
  /\ size(pre, op.d) >= 4
  /\ reverseSearch(pre, op.d, op.ix)
  /\ ret = RetNum(size(pre, op.d) + 1)
  /\ LET B == Contents(World, op.d)
         i == op.ix \div 2
     IN B[i + 1] = op.val /\ B[i] # op.val /\ B[i + 2] # op.val


\* the positions (from 1) of the sequence A whose element equals v
MatchPos(A, v) == {i \in 1..Len(A) : isEqual(A[i], v)}

\* the least element of a set of numbers that is not empty
SetMin(S) == CHOOSE x \in S : \A y \in S : x <= y

\* C16: indexOf(v) returns the smallest 0-based position whose element
\* equals v, or -1 when no element equals v; has(v) is true exactly when
\* indexOf(v) > -1; neither call changes the deque.
C16_IndexOfHas ==
  LET M == MatchPos(Contents(pre, op.d), op.val) IN
  /\ op.name = "indexOf" =>
       /\ World = pre
       /\ ret = RetNum(IF M = {} THEN -1 ELSE SetMin(M) - 1)
  /\ op.name = "has" =>
       /\ World = pre
       /\ ret = RetBool(indexOf(pre, op.d, op.val, "isEqual") > -1)
       /\ ret = RetBool(M # {})

\* indexOf found its value past the head, and the value occurs again later
C16_Witness ==
  /\ op.name = "indexOf"
  /\ ret.n >= 1
  /\ Cardinality(MatchPos(Contents(pre, op.d), op.val)) >= 2
  /\ Contents(pre, op.d)[ret.n + 1] = op.val

\* C17: count(v) returns the number of elements of the whole deque that
\* equal v (0 when there is none, whatever the order of the elements): every
\* node is examined, a match does not end the scan, and the deque is not
\* changed.
C17_Count ==
  op.name = "count" =>
    /\ World = pre
    /\ ret = RetNum(Cardinality(MatchPos(Contents(pre, op.d), op.val)))
    /\ \A B \in LongSeqs :
         (Len(B) = size(pre, op.d) /\ \A x \in Values :
             Cardinality(MatchPos(B, x)) = Cardinality(MatchPos(Contents(pre, op.d), x)))
           => ret.n = Cardinality(MatchPos(B, op.val))

\* count found at least two matches with an element that does not match
\* between them, the last match being the tail
C17_Witness ==
  /\ op.name = "count"
  /\ ret.n >= 2
  /\ LET A == Contents(pre, op.d)
     IN /\ A[Len(A)] = op.val
        /\ \E i, j \in 1..Len(A) : i < j /\ j < Len(A) /\ A[i] = op.val /\ A[j] # op.val


\* C18: when some element equals v, remove(v) removes exactly the first
\* (lowest-index) matching element and no other, returns that element's
\* value, decreases size by exactly 1 and keeps the order of the remaining
\* elements, whether the match is the head, the tail, the only element or
\* an interior node, and in any sequence of removals.
C18_RemoveFirst ==
  LET A == Contents(pre, op.d)
      M == MatchPos(A, op.val)
  IN (op.name = "remove" /\ M # {}) =>
       LET k == SetMin(M) IN
       /\ Contents(World, op.d) = SubSeq(A, 1, k - 1) \o SubSeq(A, k + 1, Len(A))
       /\ Linked(World, op.d) = Without(Linked(pre, op.d), Linked(pre, op.d)[k])
       /\ ret = RetVal(A[k])
       /\ size(World, op.d) = size(pre, op.d) - 1
       /\ Len(Contents(World, op.d)) = size(World, op.d)

\* remove took an interior node out although the tail matched too
C18_Witness ==
  LET A == Contents(pre, op.d)
      M == MatchPos(A, op.val)
  IN /\ op.name = "remove"
     /\ Len(A) >= 3
     /\ Len(A) \in M
     /\ 1 \notin M
     /\ SetMin(M) < Len(A)
     /\ Contents(World, op.d) = SubSeq(A, 1, SetMin(M) - 1) \o SubSeq(A, SetMin(M) + 1, Len(A))
     /\ ret = RetVal(op.val)

\* C19: remove(v) when no element equals v returns undefined and leaves the
\* deque as it was: same size, same elements in the same order, same head
\* and tail.
C19_RemoveMiss ==
  (op.name = "remove" /\ MatchPos(Contents(pre, op.d), op.val) = {}) =>
    /\ ret = RetVal(Undefined)
    /\ size(World, op.d) = size(pre, op.d)
    /\ Contents(World, op.d) = Contents(pre, op.d)
    /\ World.dq[op.d].head = pre.dq[op.d].head
    /\ World.dq[op.d].tail = pre.dq[op.d].tail
    /\ World = pre

\* remove found no match on a deque of at least two elements
C19_Witness ==
  /\ op.name = "remove"
  /\ MatchPos(Contents(pre, op.d), op.val) = {}
  /\ size(pre, op.d) >= 2
  /\ ret = RetVal(Undefined)
  /\ World = pre


\* the deque d of world w is empty and every node formerly linked in was
\* left with no prev, no next and no value
Cleared(w, was, d) ==
  /\ w.dq[d] = [head |-> NULL, tail |-> NULL, size |-> 0]
  /\ front(w, d) = Undefined /\ back(w, d) = Undefined
  /\ popFront(w, d).ret = RetVal(Undefined)
  /\ popBack(w, d).ret = RetVal(Undefined)
  /\ \A i \in 1..Len(Linked(was, d)) :
       w.heap[Linked(was, d)[i]] = [prev |-> NULL, next |-> NULL, data |-> Undefined]

\* pushBack(a) then pushBack(b) on world w: front() and back() after each
UsableWith(w, d, a, b) ==
  LET w1 == pushBack(w, d, a).w
      w2 == pushBack(w1, d, b).w
  IN /\ front(w1, d) = a /\ back(w1, d) = a
     /\ front(w2, d) = a /\ back(w2, d) = b

\* C20: clear() from any state leaves the deque empty (no head, no tail,
\* size 0, front, back, popFront and popBack all returning undefined) with
\* prev, next and value of every formerly linked node cleared, and the deque
\* is usable afterwards: a following pushBack(a) gives front() = back() = a
\* and a second pushBack(b) gives front() = a and back() = b.
C20_Clear ==
  op.name = "clear" =>
    /\ Cleared(World, pre, op.d)
    /\ \A a, b \in Values : UsableWith(World, op.d, a, b)


\* the sequence s back to front
Rev(s) == [i \in 1..Len(s) |-> s[Len(s) + 1 - i]]

\* deque d of world w is well linked: the next chain from head and the prev
\* chain from tail hold the same size nodes in opposite orders, and the end
\* nodes have no link outward
WellLinked(w, d) ==
  LET c == Linked(w, d) IN
  /\ Len(c) = size(w, d)
  /\ PrevChain(w.heap, w.dq[d].tail, MaxNodes + 1) = Rev(c)
  /\ (c = <<>>) <=> (w.dq[d].head = NULL)
  /\ (c = <<>>) <=> (w.dq[d].tail = NULL)
  /\ c # <<>> => /\ w.heap[c[1]].prev = NULL
                 /\ w.heap[c[Len(c)]].next = NULL
                 /\ w.dq[d].tail = c[Len(c)]

\* pushes and pops at both ends of deque d of world w give what its
\* contents B call for
EndsBehave(w, d) ==
  LET B == Contents(w, d) IN
  /\ \A v \in Values :
       /\ FreeSlots(w) > 0 => Contents(pushFront(w, d, v).w, d) = <<v>> \o B
       /\ FreeSlots(w) > 0 => Contents(pushBack(w, d, v).w, d) = Append(B, v)
  /\ B # <<>> =>
       /\ popFront(w, d).ret = RetVal(B[1])
       /\ Contents(popFront(w, d).w, d) = SubSeq(B, 2, Len(B))
       /\ popBack(w, d).ret = RetVal(B[Len(B)])
       /\ Contents(popBack(w, d).w, d) = SubSeq(B, 1, Len(B) - 1)
       /\ WellLinked(popFront(w, d).w, d) /\ WellLinked(popBack(w, d).w, d)

\* C21: reverse() on a deque with contents A makes the contents the
\* reversal of A, in place: the nodes are the same and each keeps its
\* value (none is allocated, none discarded), size is unchanged, the old
\* head is the tail and the old tail the head, the same deque is returned,
\* and the deque is well linked afterwards, so that pushes and pops at
\* either end behave as its contents call for.
C21_Reverse ==
  op.name = "reverse" =>
    /\ Contents(World, op.d) = Rev(Contents(pre, op.d))
    /\ Linked(World, op.d) = Rev(Linked(pre, op.d))
    /\ \A n \in Nodes : heap[n].data = pre.heap[n].data
    /\ size(World, op.d) = size(pre, op.d)
    /\ World.dq[op.d].head = pre.dq[op.d].tail
    /\ World.dq[op.d].tail = pre.dq[op.d].head
    /\ ret = RetDeque(op.d)
    /\ WellLinked(World, op.d)
    /\ EndsBehave(World, op.d)

\* reverse() has run on three elements whose first and last differ
C21_Witness ==
  /\ op.name = "reverse"
  /\ size(pre, op.d) = 3
  /\ Contents(pre, op.d)[1] # Contents(pre, op.d)[3]
  /\ Contents(World, op.d) = Rev(Contents(pre, op.d))
  /\ World.dq[op.d].head = pre.dq[op.d].tail

\* C22: in every state, reverse() applied twice restores the head-to-tail
\* order: toArray() after the second reverse equals toArray() before the
\* first, and the head and tail nodes are the ones they were.
C22_ReverseTwice ==
  (Len(trace) = 2 /\ trace[1].call.name = "reverse" /\ trace[2].call.name = "reverse") =>
    LET orig == trace[1].before IN
    /\ toArray(World, 1) = toArray(orig, 1)
    /\ World.dq[1].head = orig.dq[1].head
    /\ World.dq[1].tail = orig.dq[1].tail
    /\ Linked(World, 1) = Linked(orig, 1)
    /\ WellLinked(World, 1)

\* reverse() has run twice on a deque of several elements that is not a
\* palindrome, and in between the order was the reversed one
C22_Witness ==
  /\ Len(trace) = 2
  /\ trace[1].call.name = "reverse" /\ trace[2].call.name = "reverse"
  /\ size(trace[1].before, 1) >= 2
  /\ toArray(trace[2].before, 1) # toArray(trace[1].before, 1)
  /\ toArray(trace[2].before, 1) = Rev(toArray(trace[1].before, 1))
  /\ toArray(World, 1) = toArray(trace[1].before, 1)


\* the calls that change the deque they are made on
Mutators ==
  {"pushFront", "pushBack", "enqueue", "push", "popFront", "popBack", "dequeue", "pop",
   "insert", "remove", "clear", "reverse"}

\* deque e is in world w as it was in world was: same head, tail and size,
\* same nodes in the same order, each with the same links and value
Intact(w, was, e) ==
  /\ w.dq[e] = was.dq[e]
  /\ Linked(w, e) = Linked(was, e)
  /\ \A n \in SeqRange(Linked(was, e)) : w.heap[n] = was.heap[n]
  /\ size(w, e) = size(was, e)
  /\ toArray(w, e) = toArray(was, e)

\* C23: copy() returns a new deque whose contents and size are the source's
\* at the moment of the call and leaves the source as it was, and from then
\* on the two are independent: no mutating call on one (push, pop, insert,
\* remove, reverse, clear) changes the size, the order or the contents of
\* the other, so no sequence of such calls does.
C23_CopyIndependent ==
  /\ op.name = "copy" =>
       /\ ret.t = "deque"
       /\ ret.n # op.d /\ ret.n \notin pre.live /\ ret.n \in live
       /\ toArray(World, ret.n) = toArray(pre, op.d)
       /\ size(World, ret.n) = size(pre, op.d)
       /\ WellLinked(World, ret.n)
       /\ Intact(World, pre, op.d)
  /\ op.name \in Mutators =>
       \A e \in pre.live \ {op.d} : e \in live /\ Intact(World, pre, e)

\* a call has changed the contents of the second deque, which before the
\* call held what deque 1 holds, as after copy(): several elements, not the
\* same read backward
C23_Witness ==
  /\ op.name \in Mutators
  /\ op.d = 2
  /\ pre.live = {1, 2}
  /\ toArray(pre, 2) = toArray(pre, 1)
  /\ size(pre, 1) >= 2
  /\ toArray(pre, 1) # Rev(toArray(pre, 1))
  /\ toArray(World, 2) # toArray(pre, 2)
  /\ toArray(World, 1) = toArray(pre, 1)


\* the nodes deque d of world w reaches: from head by next, from tail by prev
Reach(w, d) ==
  SeqRange(Linked(w, d)) \cup SeqRange(PrevChain(w.heap, w.dq[d].tail, MaxNodes + 1))

\* C24: in every reachable state of a system of several deques, made by
\* construction, by fromArray or by copy, no node is reachable from two
\* deques: the node sets of any two deques are disjoint, and copy() gives
\* every element a node of its own that no deque held before.
C24_NoSharedNode ==
  /\ \A d, e \in live : d # e => Reach(World, d) \cap Reach(World, e) = {}
  /\ op.name = "copy" =>
       /\ Reach(World, ret.n) \cap AllLinked(pre) = {}
       /\ Cardinality(Reach(World, ret.n)) = size(pre, op.d)
  /\ (op.name \in {"constructor", "fromArray"} /\ pre.live # {}) =>
       /\ Reach(World, op.d) \cap AllLinked(pre) = {}
       /\ Cardinality(Reach(World, op.d)) = Len(op.arr)

\* copy() has just made a second deque of two nodes next to the two of the
\* first
C24_Witness ==
  /\ op.name = "copy"
  /\ live = {1, 2}
  /\ size(World, 1) >= 2
  /\ Cardinality(Reach(World, 1) \cup Reach(World, 2)) = 2 * size(World, 1)


\* the references among the values of the sequence s
RefsOf(s) == SeqRange(s) \cap Refs

\* the sequence c holds, place by place, clones of the values of s: equal
\* contents, and no reference of s
ClonesOf(c, s) ==
  /\ Len(c) = Len(s)
  /\ \A i \in 1..Len(s) : isEqual(c[i], s[i])
  /\ RefsOf(c) \cap RefsOf(s) = {}

\* C25: with the default deep-clone function the values the deque made by
\* copy() holds and the values toArray() returns are clones that share no
\* reference with the values the source deque holds, so that a change made
\* to a structured value through the copy or through the array reaches no
\* value stored in the source, nor the other way round.
C25_FreshClones ==
  /\ op.name = "copy" =>
       ClonesOf(Contents(World, ret.n), Contents(World, op.d))
  /\ op.name = "toArray" =>
       ClonesOf(ret.v, Contents(World, op.d))

\* copy() has run on a deque that holds two different structured values
\* and a primitive
C25_Witness ==
  /\ op.name = "copy"
  /\ SeqRange(Contents(World, op.d)) = {"1", "&a", "&b"}
  /\ SeqRange(Contents(World, ret.n)) = {"1", "&a'", "&b'"}


\* C26: in every reachable state toArray() returns a new sequence whose
\* length is size and whose i-th entry is (a clone of) the i-th element in
\* head-to-tail order; on an empty deque, after clear() too, it returns the
\* empty sequence and not undefined; toArray() does not change the deque.
C26_ToArray ==
  /\ op.name = "toArray" =>
       /\ ret.t = "array"
       /\ Len(ret.v) = size(pre, op.d)
       /\ \A i \in 1..Len(ret.v) : ret.v[i] = cloneDeep(Contents(pre, op.d)[i])
       /\ size(pre, op.d) = 0 => ret.v = <<>>
       /\ World = pre
  /\ op.name = "clear" => toArray(World, op.d) = <<>>

\* toArray() has run on three elements, the first unlike the last
C26_Witness ==
  /\ op.name = "toArray"
  /\ size(pre, op.d) = 3
  /\ ret.v = Contents(pre, op.d)
  /\ ret.v[1] # ret.v[3]


\* the two states of a deque
Empty(w, d) == w.dq[d] = [head |-> NULL, tail |-> NULL, size |-> 0]
Populated(w, d) == w.dq[d].head # NULL /\ w.dq[d].tail # NULL /\ w.dq[d].size > 0

\* popFront() (at the front) or popBack() called n times on deque d
RECURSIVE PopTimes(_, _, _, _)
PopTimes(w, d, atFront, n) ==
  IF n = 0 THEN w
  ELSE PopTimes(IF atFront THEN popFront(w, d).w ELSE popBack(w, d).w, d, atFront, n - 1)

\* the results of every call that changes deque d, made in world w, where
\* the arena has room for it; indices are whole numbers
CallResults(w, d) ==
  {popFront(w, d), popBack(w, d), dequeue(w, d), pop(w, d), clear(w, d), reverse(w, d)}
  \cup {remove(w, d, v, "isEqual") : v \in Values}
  \cup (IF FreeSlots(w) = 0 THEN {}
        ELSE UNION {{pushFront(w, d, v), pushBack(w, d, v), enqueue(w, d, v), push(w, d, v)}
                    \cup {insert(w, d, Ix(i), v) : i \in {-FarIndex, FarIndex} \cup 0..size(w, d)}
                    : v \in Values})

\* C27: a deque built without arguments starts Empty; from every reachable
\* Populated state Empty can be reached, by pops or by clear(), and from
\* Empty a Populated state, by any push or insert; no state is terminal: in
\* every reachable state, right after clear() too, every call can be made
\* and completes, leaving a deque that is Empty or Populated.
C27_EmptyPopulated ==
  /\ Empty(World, 1) \/ Populated(World, 1)
  /\ (IsConstruction /\ op.arr = <<>>) => Empty(World, 1)
  /\ Populated(World, 1) =>
       /\ Empty(clear(World, 1).w, 1)
       /\ Empty(PopTimes(World, 1, TRUE, size(World, 1)), 1)
       /\ Empty(PopTimes(World, 1, FALSE, size(World, 1)), 1)
  /\ (Empty(World, 1) /\ FreeSlots(World) > 0) =>
       \A v \in Values :
         /\ Populated(pushFront(World, 1, v).w, 1) /\ Populated(pushBack(World, 1, v).w, 1)
         /\ Populated(enqueue(World, 1, v).w, 1) /\ Populated(push(World, 1, v).w, 1)
         /\ \A ix \in IndexInputs(1) : Populated(insert(World, 1, ix, v).w, 1)
  /\ \A r \in CallResults(World, 1) :
       /\ r.ret.t # "TypeError"
       /\ Empty(r.w, 1) \/ Populated(r.w, 1)
       /\ WellLinked(r.w, 1)
  /\ (op.name \in {"popFront", "popBack", "dequeue", "pop"} /\ size(pre, op.d) = 1) =>
       Empty(World, op.d)
  /\ op.name = "clear" => Empty(World, op.d)
  /\ (op.name \in {"pushFront", "pushBack", "enqueue", "push", "insert"} /\ Empty(pre, op.d)) =>
       Populated(World, op.d) /\ size(World, op.d) = 1

\* a pop has taken the last element of a Populated deque, which is Empty
\* now and which a push would populate again
C27_Witness ==
  /\ op.name \in {"popFront", "popBack", "dequeue", "pop"}
  /\ Populated(pre, 1)
  /\ Empty(World, 1)
  /\ ret.v # Undefined
  /\ \A v \in Values : Populated(pushBack(World, 1, v).w, 1)


\* the positions (from 1) of A whose element matches v under isEqualFn
MatchPosWith(A, v, isEqualFn) == {i \in 1..Len(A) : ApplyEq(isEqualFn, A[i], v)}

\* C28: when the caller passes an equality function eq, indexOf(v, eq),
\* count(v, eq) and remove(v, eq) decide every match by eq(element, v)
\* alone and never by the default deep equality: indexOf returns the first
\* index where eq holds, count the number of elements where it holds, and
\* remove takes out the first element where it holds; without eq all three
\* use deep equality.
C28_CallerEquality ==
  LET A == Contents(pre, op.d)
      M == MatchPosWith(A, op.val, op.eq)
  IN /\ op.name = "indexOf" =>
          ret = RetNum(IF M = {} THEN -1 ELSE SetMin(M) - 1) /\ World = pre
     /\ op.name = "count" =>
          ret = RetNum(Cardinality(M)) /\ World = pre
     /\ (op.name = "remove" /\ M = {}) =>
          ret = RetVal(Undefined) /\ World = pre
     /\ (op.name = "remove" /\ M # {}) =>
          /\ ret = RetVal(A[SetMin(M)])
          /\ Contents(World, op.d) = SubSeq(A, 1, SetMin(M) - 1) \o SubSeq(A, SetMin(M) + 1, Len(A))
     /\ (op.name \in {"indexOf", "count", "remove"} /\ op.eq = "isEqual") =>
          M = MatchPos(A, op.val)

\* remove(null, eq) under the caller's equality took the head, which is not
\* null, out of a deque that holds null further on
C28_Witness ==
  LET A == Contents(pre, op.d) IN
  /\ op.name = "remove"
  /\ op.eq = "nullMatchesAll"
  /\ op.val = Null
  /\ Len(A) >= 3
  /\ A[1] # Null
  /\ MatchPos(A, Null) # {}
  /\ ret = RetVal(A[1])
  /\ Contents(World, op.d) = SubSeq(A, 2, Len(A))


\* the world after the k-th call of the run in trace
AfterCall(k) == IF k = Len(trace) THEN World ELSE trace[k + 1].before

Occurs(s, r, p) == p + Len(r) - 1 <= Len(s) /\ SubSeq(s, p, p + Len(r) - 1) = r

Occurrences(s, r) == Cardinality({p \in 1..Len(s) : Occurs(s, r, p)})

\* the texts reps[k], reps[k + 1], ... occur in s in this order, one after
\* the end of the other, at or after position from
RECURSIVE InOrder(_, _, _, _)
InOrder(s, reps, k, from) ==
  IF k > Len(reps) THEN TRUE
  ELSE
    LET at == {p \in from..Len(s) : Occurs(s, reps[k], p)}
    IN at # {} /\ InOrder(s, reps, k + 1, SetMin(at) + Len(reps[k]))

EmptyMarker == <<"e", "m", "p", "t", "y">>

\* C30: toString() of an empty deque returns a text that contains "empty",
\* and the text of a deque that holds elements never equals the text of an
\* empty deque; the text of a deque that holds elements contains the
\* representations of its elements in head-to-tail order, each exactly as
\* many times as elements have it, and a number is shown by its digit;
\* toString() leaves the deque as it was.
C30_ToString ==
  op.name = "toString" =>
    LET A == Contents(pre, op.d)
        text == ret.v
        reps == [k \in DOMAIN A |-> ValText(A[k])]
    IN /\ ret.t = "string"
       /\ World = pre
       /\ A = <<>> => Occurrences(text, EmptyMarker) > 0
       /\ A # <<>> =>
            /\ text # toString(constructor(NoWorld, 1, <<>>).w, 1).ret.v
            /\ InOrder(text, reps, 1, 1)
            /\ \A k \in DOMAIN A :
                 /\ Occurrences(text, reps[k]) =
                      Cardinality({j \in DOMAIN A : reps[j] = reps[k]})
                 /\ A[k] \in {"1", "2"} => Occurrences(text, <<A[k]>>) > 0

C30_Witness ==
  /\ op.name = "toString"
  /\ Contents(pre, op.d) = <<"1", "2", Null>>
  /\ ret.t = "string"
  /\ ret.n > Len(EmptyMarker)
  /\ World = pre


\* the array the example's deque was built from
ExampleArray == Contents(trace[1].before, 1)

\* the text shows the single element v: its digit once and no other digit
ShowsOnly(text, v) ==
  \A u \in ExampleValues : Occurrences(text, <<u>>) = (IF u = v THEN 1 ELSE 0)

\* what the README's example says of the first four calls: popBack() returns
\* the third number, popFront() the first, has(second) is true, size is 1
C31_FirstFour ==
  /\ Len(trace) >= 1 => trace[1].ret = RetVal(ExampleArray[3])
  /\ Len(trace) >= 2 => trace[2].ret = RetVal(ExampleArray[1])
  /\ (Len(trace) >= 3 /\ trace[3].call.val = ExampleArray[2]) => trace[3].ret = RetBool(TRUE)
  /\ Len(trace) >= 4 => trace[4].ret = RetNum(1)

RECURSIVE Follow(_, _, _, _)
Follow(h, node, kind, steps) ==
  IF steps = 0 \/ node = NULL THEN node
  ELSE Follow(h, IF kind = "prev" THEN h[node].prev ELSE h[node].next, kind, steps - 1)

\* C32: for every whole index in [0, size) the lookup of get and insert
\* returns the node at that position; when index > size / 2 it has walked
\* from the tail over size - 1 - index prev links, otherwise from the head
\* over index next links; it follows at most size / 2 links; and the
\* forward loop and the backward loop find the same node for the index.
C32_Lookup ==
  (op.name \in {"get", "insert"} /\ InRange(pre, op.d, op.ix)) =>
    LET n == size(pre, op.d)
        i == op.ix \div 2
        h == pre.heap
        r == getNodeAtIndex(pre, op.d, op.ix)
    IN /\ r.node = Linked(pre, op.d)[i + 1]
       /\ 2 * r.links <= n
       /\ 2 * i > n => /\ r.links = n - 1 - i
                       /\ r.node = Follow(h, pre.dq[op.d].tail, "prev", r.links)
       /\ 2 * i <= n => /\ r.links = i
                        /\ r.node = Follow(h, pre.dq[op.d].head, "next", r.links)
       /\ forwardSearchLoop(h, pre.dq[op.d].head, 0, op.ix, 0).node =
            reverseSearchLoop(h, pre.dq[op.d].tail, n - 1, op.ix, 0).node

\* a lookup that walked backward over a link, and one index lower would
\* have walked forward
C32_Witness ==
  /\ op.name = "get"
  /\ size(pre, op.d) = 4
  /\ op.ix = Ix(3)
  /\ getNodeAtIndex(pre, op.d, op.ix).links = 0
  /\ getNodeAtIndex(pre, op.d, Ix(2)).links = 2
  /\ ret.t = "value"


\* C33: in every call of insert with a whole index, 0 < index < size, the
\* node located exists and has a prev; in every call of remove whose matched
\* node is neither head nor tail the node has a prev and a next; and no call
\* other than an insert with a fractional index ends in a TypeError.
C33_NoFault ==
  /\ (op.name = "insert" /\ IsInteger(op.ix) /\ 0 < op.ix /\ op.ix < Ix(size(pre, op.d))) =>
       LET node == getNodeAtIndex(pre, op.d, op.ix).node
       IN /\ node # NULL
          /\ pre.heap[node].prev # NULL
          /\ ret.t = "number"
  /\ op.name = "remove" =>
       LET node == getNodeByValue(pre, op.d, op.val, op.eq).node
       IN (node # NULL /\ node # pre.dq[op.d].head /\ node # pre.dq[op.d].tail) =>
            /\ pre.heap[node].prev # NULL
            /\ pre.heap[node].next # NULL
            /\ ret.t = "value"
  /\ (op.name # "insert" \/ IsInteger(op.ix)) => ret.t # "TypeError"

\* remove() took the node in the middle of three out
C33_Witness ==
  /\ op.name = "remove"
  /\ size(pre, op.d) = 3
  /\ getNodeByValue(pre, op.d, op.val, op.eq).node = Linked(pre, op.d)[2]
  /\ ret.t = "value"
  /\ size(World, op.d) = 2


\* the nodes deque d links in world w, met from the head or from the tail
NodesOf(w, d) ==
  SeqRange(Linked(w, d)) \cup SeqRange(PrevChain(w.heap, w.dq[d].tail, MaxNodes + 1))

\* the nodes the call detached from its deque
Detached == NodesOf(pre, op.d) \ NodesOf(World, op.d)

\* C34: after popFront, popBack (dequeue and pop, which call them), remove
\* and clear every node the call detached has prev none, next none and no
\* value, and neither head, tail nor a link of a node still in the deque
\* refers to a detached node.
C34_Detached ==
  op.name \in {"popFront", "popBack", "dequeue", "pop", "remove", "clear"} =>
    /\ \A n \in Detached :
         World.heap[n] = [prev |-> NULL, next |-> NULL, data |-> Undefined]
    /\ World.dq[op.d].head \notin Detached
    /\ World.dq[op.d].tail \notin Detached
    /\ \A m \in NodesOf(World, op.d) :
         /\ World.heap[m].prev \notin Detached
         /\ World.heap[m].next \notin Detached
    /\ Cardinality(Detached) = size(pre, op.d) - size(World, op.d)

\* popBack() detached the tail of a deque of three
C34_Witness ==
  /\ op.name = "popBack"
  /\ size(pre, op.d) = 3
  /\ Detached = {pre.dq[op.d].tail}
  /\ World.heap[pre.dq[op.d].tail].data = Undefined
  /\ pre.heap[pre.dq[op.d].tail].data # Undefined


Queries ==
  {"size", "front", "back", "get", "indexOf", "has", "count", "toArray", "toString", "copy"}

\* C35: size, front(), back(), get(), indexOf(), has(), count(), toArray(),
\* toString() and copy() leave the head, the tail and the size of the deque
\* they are called on as they were, and every node of it with its links
\* and its value.
C35_QueriesFrame ==
  op.name \in Queries =>
    /\ World.dq[op.d] = pre.dq[op.d]
    /\ NodesOf(World, op.d) = NodesOf(pre, op.d)
    /\ \A n \in NodesOf(pre, op.d) : World.heap[n] = pre.heap[n]
    /\ Linked(World, op.d) = Linked(pre, op.d)

\* copy() made a second deque of three elements
C35_Witness ==
  /\ op.name = "copy"
  /\ size(pre, op.d) = 3
  /\ World # pre
  /\ size(World, ret.n) = 3
  /\ Linked(World, op.d) = Linked(pre, op.d)


\* the list of deque d is finite and acyclic and size counts it: following
\* next from the head, and prev from the tail, meets size different nodes
\* and then none
Finite(w, d) ==
  /\ Len(Linked(w, d)) = size(w, d)
  /\ Cardinality(SeqRange(Linked(w, d))) = size(w, d)
  /\ Len(PrevChain(w.heap, w.dq[d].tail, MaxNodes + 1)) = size(w, d)
  /\ NodesOf(w, d) = SeqRange(Linked(w, d))

\* C36: in every reachable state the list of every deque is finite and
\* acyclic, size nodes long, so a loop over it stops after at most size
\* nodes; and every call has returned having visited no more: reverse()
\* has swapped the links of each node once and clear() has cleared each
\* node, the lookup of get and insert has followed at most size links,
\* indexOf and remove stopped at the first match or after size nodes, count
\* counted at most size, and toArray() and copy() produced size elements.
C36_Terminates ==
  /\ \A d \in live : Finite(World, d)
  /\ op.name = "reverse" =>
       \A n \in NodesOf(pre, op.d) :
         /\ World.heap[n].next = pre.heap[n].prev
         /\ World.heap[n].prev = pre.heap[n].next
  /\ op.name = "clear" =>
       \A n \in NodesOf(pre, op.d) :
         World.heap[n] = [prev |-> NULL, next |-> NULL, data |-> Undefined]
  /\ op.name \in {"get", "insert"} =>
       getNodeAtIndex(pre, op.d, op.ix).links <= size(pre, op.d)
  /\ op.name \in {"indexOf", "remove"} =>
       getNodeByValue(pre, op.d, op.val, op.eq).index < size(pre, op.d)
  /\ op.name = "count" => ret.n <= size(pre, op.d)
  /\ op.name = "toArray" => ret.n = size(pre, op.d)
  /\ op.name = "copy" => size(World, ret.n) = size(pre, op.d)
  /\ op.name = "toString" => ret.t = "string"

\* reverse() went over a list of three nodes
C36_Witness ==
  /\ op.name = "reverse"
  /\ size(pre, op.d) = 3
  /\ Finite(World, op.d)
  /\ Linked(World, op.d) = Rev(Linked(pre, op.d))


\* C37: for every stored value, null too, front() returns what get(0)
\* returns and back() what get(size - 1) returns, and on a deque that is
\* not empty popFront() returns what front() returned just before it and
\* popBack() what back() returned just before it.
C37_EndsAgree ==
  /\ op.name = "front" => ret = RetVal(get(pre, op.d, Ix(0)))
  /\ op.name = "back" => ret = RetVal(get(pre, op.d, Ix(size(pre, op.d) - 1)))
  /\ (op.name = "popFront" /\ size(pre, op.d) > 0) => ret = RetVal(front(pre, op.d))
  /\ (op.name = "popBack" /\ size(pre, op.d) > 0) => ret = RetVal(back(pre, op.d))


\* the sequence s without its k-th element
Drop(s, k) == SubSeq(s, 1, k - 1) \o SubSeq(s, k + 1, Len(s))

\* C38: insert(index, value) ends without a fault for every index, a
\* fractional one strictly between 0 and size too: it returns the new size,
\* the deque holds exactly one element more, value, the others in their
\* order, and its list stays well linked.
C38_InsertTotal ==
  op.name = "insert" =>
    /\ ret = RetNum(size(pre, op.d) + 1)
    /\ size(World, op.d) = size(pre, op.d) + 1
    /\ \E k \in 1..Len(Contents(World, op.d)) :
         /\ Contents(World, op.d)[k] = op.val
         /\ Drop(Contents(World, op.d), k) = Contents(pre, op.d)
    /\ Finite(World, op.d)
    /\ WellLinked(World, op.d)


\* C39: in every reachable state, under the default equality, has(v) is true
\* exactly when count(v) > 0 and exactly when indexOf(v) is not -1; when
\* indexOf(v) is i >= 0, get(i) equals v; and a remove(v) that found v
\* lowers count(v) by exactly 1 and leaves count(w) as it was for every w
\* not equal to v.
C39_SearchAgree ==
  /\ \A d \in live : \A v \in Values :
       LET i == indexOf(World, d, v, "isEqual") IN
       /\ has(World, d, v) <=> count(World, d, v, "isEqual") > 0
       /\ has(World, d, v) <=> i # -1
       /\ i >= 0 => isEqual(get(World, d, Ix(i)), v)
  /\ op.name = "has" => ret = RetBool(count(pre, op.d, op.val, "isEqual") > 0)
  /\ op.name = "indexOf" => (ret.n # -1 <=> has(pre, op.d, op.val))
  /\ op.name = "count" => (ret.n > 0 <=> has(pre, op.d, op.val))
  /\ (op.name = "remove" /\ has(pre, op.d, op.val)) =>
       /\ ret = RetVal(op.val)
       /\ count(World, op.d, op.val, "isEqual") = count(pre, op.d, op.val, "isEqual") - 1
       /\ \A w \in Values \ {op.val} :
            count(World, op.d, w, "isEqual") = count(pre, op.d, w, "isEqual")

\* remove(v) took one of two v out of a deque that holds another value too
C39_Witness ==
  /\ op.name = "remove"
  /\ count(pre, op.d, op.val, "isEqual") = 2
  /\ count(World, op.d, op.val, "isEqual") = 1
  /\ has(World, op.d, op.val)
  /\ size(World, op.d) = 2


\* the call at the other end
OtherEnd(name) ==
  CASE name = "pushFront" -> "pushBack"
    [] name = "pushBack" -> "pushFront"
    [] name = "popFront" -> "popBack"
    [] name = "popBack" -> "popFront"

\* the call name made on deque d of world w
EndCall(name, w, d, v) ==
  CASE name = "pushFront" -> pushFront(w, d, v)
    [] name = "pushBack" -> pushBack(w, d, v)
    [] name = "popFront" -> popFront(w, d)
    [] name = "popBack" -> popBack(w, d)

\* C40: reverse(), then a pushFront(v), pushBack(v), popFront() or
\* popBack(), then reverse() leaves the contents that the call at the other
\* end leaves when made alone on the deque as it was before, and the call
\* in the middle returns what that call returns.
C40_Mirror ==
  (Len(trace) = 3 /\ trace[1].call.name = "reverse" /\ trace[3].call.name = "reverse") =>
    LET mid == trace[2].call
        alone == EndCall(OtherEnd(mid.name), trace[1].before, 1, mid.val)
    IN /\ Contents(World, 1) = Contents(alone.w, 1)
       /\ trace[2].ret = alone.ret
       /\ size(World, 1) = size(alone.w, 1)
       /\ Finite(World, 1)

\* reverse(); popFront(); reverse() on a deque of three with different ends
C40_Witness ==
  /\ Len(trace) = 3
  /\ trace[1].call.name = "reverse"
  /\ trace[2].call.name = "popFront"
  /\ trace[3].call.name = "reverse"
  /\ size(trace[1].before, 1) = 3
  /\ Contents(trace[1].before, 1)[1] # Contents(trace[1].before, 1)[3]
  /\ trace[2].ret = RetVal(Contents(trace[1].before, 1)[3])
  /\ Contents(World, 1) = SubSeq(Contents(trace[1].before, 1), 1, 2)

====
